---- MODULE Spec2Model ----
(***************************************************************************)
(* Model of the YarpRobotLoggerDevice telemetry capture engine             *)
(* (bipedal-locomotion-framework): the Acquisition Loop run(), the         *)
(* background workers lookForNewLogs / lookForExogenousSignals /           *)
(* recordVideo, the Save Orchestrator saveCallback, setupTelemetry and     *)
(* close().                                                                *)
(*                                                                         *)
(* The device is modelled as several state machines over disjoint groups   *)
(* of variables, one specification per group:                              *)
(*   SpecWorker    the wake-time arithmetic of a worker loop               *)
(*   SpecLogs      the scans of lookForNewLogs over the producers          *)
(*   SpecTelemetry setupTelemetry and the buffer filled between rotations  *)
(*   SpecRotation  the rotation of the Buffer Store and saveCallback       *)
(*   SpecClose     close() against the start-up of the worker threads      *)
(*   SpecLocks     the interleaving of run(), recordVideo(),               *)
(*                 lookForExogenousSignals() and saveCallback() on the     *)
(*                 mutexes of the device                                   *)
(*   Spec          the appends of run(), tick after tick                   *)
(* A specification leaves the variables of the other groups at their idle  *)
(* values.                                                                 *)
(***************************************************************************)
EXTENDS Integers, Sequences, FiniteSets, TLC

VARIABLES
    \* ---- worker loop (SpecWorker)
    clock,          \* BipedalLocomotion::clock().now(), in model time units
    workerPeriod,   \* the period constant of the modelled worker loop
    time,           \* local `time` of the worker
    oldTime,        \* local `oldTime` of the worker
    wakeUpTime,     \* local `wakeUpTime` of the worker
    wpc,            \* position of the worker: "spawned", "top", "scan", "sleep"
    slept,          \* whether the last sleepUntil had to wait
    startTime,      \* the reading the worker started from
    cyclesBegun,    \* cycles whose top the worker has executed
    sawBackward,    \* whether a reading was lower than the one before
    \* ---- log discovery (SpecLogs)
    m_textLoggingSubnames,   \* allow-list of name substrings (configuration)
    m_textLoggingPortNames,  \* the Text-Log Port Set
    connectCalls,            \* per producer, the calls of Network::connect
    connectFailed,           \* producers whose connect returned false
    listedAlive,             \* per producer, the scans that listed it alive
    scanCount,               \* scans done so far
    \* ---- telemetry buffer (SpecTelemetry)
    save_period,    \* config.save_period, in units of PeriodUnit
    devicePeriod,   \* devicePeriod handed to setupTelemetry, same unit
    n_samples,      \* config.n_samples, the capacity of a channel
    buffered,       \* samples held by the channel since the last rotation
    overwritten,    \* whether a sample was dropped because the channel was full
    telTime,        \* time of the next tick, counted from the last rotation
    \* ---- rotation of the Buffer Store (SpecRotation)
    rotCameras,     \* the rgb camera streams of the session (configuration)
    rotQueue,       \* samples held in memory by the channel, oldest first
    persisted,      \* samples the persistence backend acknowledged
    appended,       \* number of samples appended in the session
    rotLog,         \* outcome of each rotation so far, ok or not
    heldAtFailure,  \* samples that were in memory at the last failed rotation
    \* ---- close() and the worker threads (SpecClose)
    running,        \* per worker, its running flag (recordVideoIsRunning,
                    \* m_lookForNewLogsIsRunning, m_lookForNewExogenousSignalIsRunning)
    tpc,            \* per worker thread: "none", "spawned", "top", "body", "exited"
    closePc,        \* position of close()
    closeCleared,   \* workers whose flag close() has set to false
    \* ---- the locks and the threads that take them (SpecLocks)
    lockOwner,      \* owner of m_bufferManagerMutex (buf), of signal.mutex (sig)
                    \* and of writer.rgb->mutex (cam), or "free"
    lpc,            \* position of run(), recordVideo, lookForExogenousSignals
                    \* and saveCallback
    camSaveMode,    \* writer.rgb->saveMode: "video" or "frame"
    signalConnected, \* signal.connected of the vectors-collection signal
    runIdx,         \* sensor-bridge channel run() is at
    heldAppends,    \* appends made under the current hold of the buffer lock
    saveMethod,     \* method argument of the running saveCallback
    encoderOpen,    \* writer.rgb->writer is an open cv::VideoWriter
    \* ---- attachAll and the ticks of run() (SpecAcquisition)
    m_streamJointStates,  \* stream_joint_states
    m_streamInertials,    \* stream_inertials
    gyroscopesList,       \* m_robotSensorBridge->getGyroscopesList()
    IMUsList,             \* m_robotSensorBridge->getIMUsList()
    registered,     \* channels of the buffer manager
    apc,            \* "constructed", "running" (start() called) or "failed"
    tick,           \* ticks of run() so far
    readLog,        \* per tick, the sources whose read succeeded
    channelQueue,   \* per registered channel, the timestamps appended
    stray,          \* channels run() appended to that were never registered
    dataArrived,    \* keys of m_vectorSignals whose signal.dataArrived is set
    \* ---- saveCallback and the camera streams (SpecSave)
    svCameras,      \* the streams of m_rgbCamerasList, as saveCallback sees them
    svCalls,        \* invocations of saveCallback so far
    svMethod,       \* method argument of the last invocation
    svLog,          \* what the last invocation did, in order
    svResult,       \* how the last invocation ended: "true", "false", "throws"
    svRecords,      \* provenance files written in the session
    \* ---- lookForExogenousSignals and the exogenous bindings (SpecExo)
    exoConnected,   \* per binding, signal.connected
    exoNegotiations, \* per binding, calls of signal.client.getMetadata
    exoMetadata,    \* per binding: "none", "known" or "failed"
    exoIdx,         \* binding the worker is at in its cycle
    exoAttempted,   \* bindings on which connect was called in this cycle
    exoFailures,    \* per binding, failed connect calls (counted up to a bound)
    \* ---- run() and the real-time publisher (SpecPublish)
    pubJointStates, \* m_streamJointStates
    pubMotorStates, \* m_streamMotorStates
    pubMotorPWM,    \* m_streamMotorPWM
    pubCollections, \* keys of m_vectorsCollectionSignals
    pubVectors,     \* keys of m_vectorSignals
    pubTick,        \* ticks of run() so far
    pubOps,         \* the calls run() made in its last tick, in order
    \* ---- open() and the configuration (SpecOpen)
    openConfig,     \* the parameters handed to open()
    openResult,     \* what open() returned: "none" before the call
    m_cameraBridge, \* the handle: "nullptr", or the bridge it points to
    bridgeUse,      \* attachAll on the camera bridge: "none", "skipped", "used"
    \* ---- attachAll, the metadata and the text-log drain (SpecSession)
    ssJointStates,  \* m_streamJointStates
    ssCameras,      \* m_rgbCamerasList with, per camera, its save mode and
                    \* whether its writer or frames folder can be opened
    ssArrived,      \* vector signals whose port had a vector at attachAll
    ssPc,           \* "constructed", "running" (start() called) or "failed"
    bmChannels,     \* channels of m_bufferManager
    rtMetadata,     \* keys populateMetadata was called with before finalizeMetadata
    rtFinalized,    \* whether finalizeMetadata was called
    m_textLogsStoredInManager,  \* names of the text-log channels added so far
    textAddChannel, \* per text-log name, the addChannel calls of the drain
    textValidCount, \* per text-log name, the valid messages drained so far
    ssTick,         \* ticks of run() so far
    \* ---- recordVideo, one camera (SpecCamera)
    cvStreams,      \* per stream (rgb, depth): "none" (nullptr), "video", "frame"
    cvClock,        \* BipedalLocomotion::clock().now()
    cvTime,         \* local `time` of recordVideo, read at the top of the cycle
    cvFrame,        \* per stream, writer.<stream>->frame
    cvPull,         \* per stream, whether the last pull returned a new frame
    cvLog,          \* what the last cycle did, in order
    cvCycles,       \* cycles of the loop so far
    imageIndex,     \* local `imageIndex` of recordVideo
    \* ---- run(): the clock reading of a tick and its samples (SpecStamp)
    tsClock,        \* the clock
    tsTick,         \* ticks of run() done
    tsAdvanced,     \* the clock when m_robotSensorBridge->advance() returned
    tsTime,         \* time, the reading of the last tick
    tsPublished,    \* timeData given to the publisher in the last tick
    tsPushes,       \* push_back calls of the last tick: channel, stamp, at
    \* ---- the period of the thread and the one given to setupTelemetry
    \* (SpecPeriod)
    ctorKind,       \* constructor used: "default" or "explicit"
    threadPeriod,   \* period of the yarp::os::PeriodicThread
    samplingParam,  \* sampling_period_in_s: <<>> if missing, else <<value>>
    pdDevicePeriod, \* devicePeriod of open()
    pdSavePeriod,   \* save_period of the Telemetry group
    pdSamples,      \* config.n_samples
    pdPc,           \* "constructed" or "opened"
    \* ---- run(): the loop over the pending text-log messages (SpecDrain)
    portQueue,      \* messages waiting in m_textLoggingPort
    bufferportSize, \* the local of run() that holds getPendingReads()
    pendingAtStart, \* getPendingReads() when the drain of the tick started
    drainReads,     \* messages read by the drain of the tick
    drainPc,        \* "idle", "loop" or "done"
    readNull,       \* the last read(false) returned nullptr
    sentInDrain,    \* messages that arrived while the drain ran
    drainTick,      \* ticks begun
    \* ---- VariablesHandler (SpecHandler)
    m_variables,    \* name -> IndexRange of the stored variables
    m_numberOfVariables, \* total size of the stored variables
    vhAdded,        \* name and size of each addition that succeeded, in order
    vhLast,         \* the last call: op, name, size, ret, range
    vhCalls         \* calls made

varsWorker == <<clock, workerPeriod, time, oldTime, wakeUpTime, wpc, slept,
                startTime, cyclesBegun, sawBackward>>

varsLogs == <<m_textLoggingSubnames, m_textLoggingPortNames, connectCalls,
              connectFailed, listedAlive, scanCount>>

varsTelemetry == <<save_period, devicePeriod, n_samples, buffered,
                   overwritten, telTime>>

varsRotation == <<rotCameras, rotQueue, persisted, appended, rotLog,
                  heldAtFailure>>

varsClose == <<running, tpc, closePc, closeCleared>>

varsLocks == <<lockOwner, lpc, camSaveMode, signalConnected, runIdx,
               heldAppends, saveMethod, encoderOpen>>

varsAcquisition == <<m_streamJointStates, m_streamInertials, gyroscopesList,
                     IMUsList, registered, apc, tick, readLog, channelQueue,
                     stray, dataArrived>>

varsSave == <<svCameras, svCalls, svMethod, svLog, svResult, svRecords>>

varsExo == <<exoConnected, exoNegotiations, exoMetadata, exoIdx,
             exoAttempted, exoFailures>>

varsPublish == <<pubJointStates, pubMotorStates, pubMotorPWM, pubCollections,
                 pubVectors, pubTick, pubOps>>

varsOpen == <<openConfig, openResult, m_cameraBridge, bridgeUse>>

varsSession == <<ssJointStates, ssCameras, ssArrived, ssPc, bmChannels,
                 rtMetadata, rtFinalized, m_textLogsStoredInManager,
                 textAddChannel, textValidCount, ssTick>>

varsCamera == <<cvStreams, cvClock, cvTime, cvFrame, cvPull, cvLog, cvCycles,
                imageIndex>>

varsStamp == <<tsClock, tsTick, tsAdvanced, tsTime, tsPublished, tsPushes>>

varsPeriod == <<ctorKind, threadPeriod, samplingParam, pdDevicePeriod,
                pdSavePeriod, pdSamples, pdPc>>

varsDrain == <<portQueue, bufferportSize, pendingAtStart, drainReads,
               drainPc, readNull, sentInDrain, drainTick>>

varsHandler == <<m_variables, m_numberOfVariables, vhAdded, vhLast, vhCalls>>

vars == <<varsWorker, varsLogs, varsTelemetry, varsRotation, varsClose,
          varsLocks, varsAcquisition, varsSave, varsExo, varsPublish,
          varsOpen, varsSession, varsCamera, varsStamp, varsPeriod,
          varsDrain, varsHandler>>

othersWorker == <<varsLogs, varsTelemetry, varsRotation, varsClose,
                  varsLocks, varsAcquisition, varsSave, varsExo, varsPublish,
                  varsOpen, varsSession, varsCamera, varsStamp, varsPeriod,
                  varsDrain, varsHandler>>

othersLogs == <<varsWorker, varsTelemetry, varsRotation, varsClose,
                varsLocks, varsAcquisition, varsSave, varsExo, varsPublish,
                varsOpen, varsSession, varsCamera, varsStamp, varsPeriod,
                varsDrain, varsHandler>>

othersTelemetry == <<varsWorker, varsLogs, varsRotation, varsClose,
                     varsLocks, varsAcquisition, varsSave, varsExo,
                     varsPublish, varsOpen, varsSession, varsCamera,
                     varsStamp, varsPeriod, varsDrain, varsHandler>>

othersRotation == <<varsWorker, varsLogs, varsTelemetry, varsClose,
                    varsLocks, varsAcquisition, varsSave, varsExo,
                    varsPublish, varsOpen, varsSession, varsCamera,
                    varsStamp, varsPeriod, varsDrain, varsHandler>>

othersClose == <<varsWorker, varsLogs, varsTelemetry, varsRotation,
                 varsLocks, varsAcquisition, varsSave, varsExo, varsPublish,
                 varsOpen, varsSession, varsCamera, varsStamp, varsPeriod,
                 varsDrain, varsHandler>>

othersLocks == <<varsWorker, varsLogs, varsTelemetry, varsRotation,
                 varsClose, varsAcquisition, varsSave, varsExo, varsPublish,
                 varsOpen, varsSession, varsCamera, varsStamp, varsPeriod,
                 varsDrain, varsHandler>>

othersAcquisition == <<varsWorker, varsLogs, varsTelemetry, varsRotation,
                       varsClose, varsLocks, varsSave, varsExo, varsPublish,
                       varsOpen, varsSession, varsCamera, varsStamp,
                       varsPeriod, varsDrain, varsHandler>>

othersSave == <<varsWorker, varsLogs, varsTelemetry, varsRotation, varsClose,
                varsLocks, varsAcquisition, varsExo, varsPublish, varsOpen,
                varsSession, varsCamera, varsStamp, varsPeriod, varsDrain,
                varsHandler>>

othersExo == <<varsWorker, varsLogs, varsTelemetry, varsRotation, varsClose,
               varsLocks, varsAcquisition, varsSave, varsPublish, varsOpen,
               varsSession, varsCamera, varsStamp, varsPeriod, varsDrain,
               varsHandler>>

othersPublish == <<varsWorker, varsLogs, varsTelemetry, varsRotation,
                   varsClose, varsLocks, varsAcquisition, varsSave, varsExo,
                   varsOpen, varsSession, varsCamera, varsStamp, varsPeriod,
                   varsDrain, varsHandler>>

othersOpen == <<varsWorker, varsLogs, varsTelemetry, varsRotation, varsClose,
                varsLocks, varsAcquisition, varsSave, varsExo, varsPublish,
                varsSession, varsCamera, varsStamp, varsPeriod, varsDrain,
                varsHandler>>

othersSession == <<varsWorker, varsLogs, varsTelemetry, varsRotation,
                   varsClose, varsLocks, varsAcquisition, varsSave, varsExo,
                   varsPublish, varsOpen, varsCamera, varsStamp, varsPeriod,
                   varsDrain, varsHandler>>

othersCamera == <<varsWorker, varsLogs, varsTelemetry, varsRotation,
                  varsClose, varsLocks, varsAcquisition, varsSave, varsExo,
                  varsPublish, varsOpen, varsSession, varsStamp, varsPeriod,
                  varsDrain, varsHandler>>

othersStamp == <<varsWorker, varsLogs, varsTelemetry, varsRotation,
                 varsClose, varsLocks, varsAcquisition, varsSave, varsExo,
                 varsPublish, varsOpen, varsSession, varsCamera, varsPeriod,
                 varsDrain, varsHandler>>

othersPeriod == <<varsWorker, varsLogs, varsTelemetry, varsRotation,
                  varsClose, varsLocks, varsAcquisition, varsSave, varsExo,
                  varsPublish, varsOpen, varsSession, varsCamera, varsStamp,
                  varsDrain, varsHandler>>

othersDrain == <<varsWorker, varsLogs, varsTelemetry, varsRotation,
                 varsClose, varsLocks, varsAcquisition, varsSave, varsExo,
                 varsPublish, varsOpen, varsSession, varsCamera, varsStamp,
                 varsPeriod, varsHandler>>

othersHandler == <<varsWorker, varsLogs, varsTelemetry, varsRotation,
                   varsClose, varsLocks, varsAcquisition, varsSave, varsExo,
                   varsPublish, varsOpen, varsSession, varsCamera, varsStamp,
                   varsPeriod, varsDrain>>

(***************************************************************************)
(* Idle values: what a specification leaves the other groups at            *)
(***************************************************************************)
IdleWorker ==
    /\ clock = 0 /\ workerPeriod = 0 /\ time = 0 /\ oldTime = 0
    /\ wakeUpTime = 0 /\ wpc = "off" /\ slept = FALSE
    /\ startTime = 0 /\ cyclesBegun = 0 /\ sawBackward = FALSE

IdleLogs ==
    /\ m_textLoggingSubnames = <<>> /\ m_textLoggingPortNames = {}
    /\ connectCalls = <<>> /\ connectFailed = {} /\ listedAlive = <<>>
    /\ scanCount = 0

IdleTelemetry ==
    /\ save_period = 0 /\ devicePeriod = 0 /\ n_samples = 0
    /\ buffered = 0 /\ overwritten = FALSE /\ telTime = 0

IdleRotation ==
    /\ rotCameras = <<>> /\ rotQueue = <<>> /\ persisted = {}
    /\ appended = 0 /\ rotLog = <<>> /\ heldAtFailure = {}

IdleClose ==
    /\ running = <<>> /\ tpc = <<>>
    /\ closePc = [at |-> "off", i |-> 0] /\ closeCleared = {}

IdleLocks ==
    /\ lockOwner = <<>> /\ lpc = <<>> /\ camSaveMode = "off"
    /\ signalConnected = FALSE /\ runIdx = 0 /\ heldAppends = 0
    /\ saveMethod = "off" /\ encoderOpen = FALSE

IdleAcquisition ==
    /\ m_streamJointStates = FALSE /\ m_streamInertials = FALSE
    /\ gyroscopesList = {} /\ IMUsList = {} /\ registered = {}
    /\ apc = "off" /\ tick = 0 /\ readLog = <<>> /\ channelQueue = <<>>
    /\ stray = {} /\ dataArrived = {}

IdleSave ==
    /\ svCameras = <<>> /\ svCalls = 0 /\ svMethod = "off" /\ svLog = <<>>
    /\ svResult = "off" /\ svRecords = 0

IdleExo ==
    /\ exoConnected = <<>> /\ exoNegotiations = <<>> /\ exoMetadata = <<>>
    /\ exoIdx = 0 /\ exoAttempted = {} /\ exoFailures = <<>>

IdlePublish ==
    /\ pubJointStates = FALSE /\ pubMotorStates = FALSE /\ pubMotorPWM = FALSE
    /\ pubCollections = {} /\ pubVectors = {} /\ pubTick = 0 /\ pubOps = <<>>

IdleOpen ==
    /\ openConfig = <<>> /\ openResult = "off"
    /\ m_cameraBridge = "off" /\ bridgeUse = "off"

IdleSession ==
    /\ ssJointStates = FALSE /\ ssCameras = <<>> /\ ssArrived = {}
    /\ ssPc = "off" /\ bmChannels = {} /\ rtMetadata = {}
    /\ rtFinalized = FALSE
    /\ m_textLogsStoredInManager = {} /\ textAddChannel = <<>>
    /\ textValidCount = <<>> /\ ssTick = 0

IdleCamera ==
    /\ cvStreams = <<>> /\ cvClock = 0 /\ cvTime = 0 /\ cvFrame = <<>>
    /\ cvPull = <<>> /\ cvLog = <<>> /\ cvCycles = 0 /\ imageIndex = 0

IdleStamp ==
    /\ tsClock = 0 /\ tsTick = 0 /\ tsAdvanced = 0 /\ tsTime = 0
    /\ tsPublished = 0 /\ tsPushes = <<>>

IdlePeriod ==
    /\ ctorKind = "off" /\ threadPeriod = 0 /\ samplingParam = <<>>
    /\ pdDevicePeriod = 0 /\ pdSavePeriod = 0 /\ pdSamples = 0
    /\ pdPc = "off"

IdleDrain ==
    /\ portQueue = 0 /\ bufferportSize = 0 /\ pendingAtStart = 0
    /\ drainReads = 0 /\ drainPc = "off" /\ readNull = FALSE
    /\ sentInDrain = 0 /\ drainTick = 0

IdleHandler ==
    /\ m_variables = <<>> /\ m_numberOfVariables = 0 /\ vhAdded = <<>>
    /\ vhLast = <<>> /\ vhCalls = 0

(***************************************************************************)
(* Helpers                                                                 *)
(***************************************************************************)
Range(s) == {s[i] : i \in DOMAIN s}

(***************************************************************************)
(* Worker loops: lookForExogenousSignals, lookForNewLogs, recordVideo      *)
(***************************************************************************)

\* Model time units in one second: the periods below are exact in this unit.
UnitsPerSecond == 2

\* Largest clock reading of the model.
MaxTime == 9

\* Largest frame rate of a camera worker.
MaxFps == 2

\* Cycles of a worker loop in one session.
MaxWorkerCycles == 3

\* const std::chrono::nanoseconds lookForExogenousSignalPeriod = 1s;
lookForExogenousSignalPeriod == 1 * UnitsPerSecond

\* const auto lookForNewLogsPeriod = 2s;
lookForNewLogsPeriod == 2 * UnitsPerSecond

\* duration_cast<nanoseconds>(duration<double>(1.0 / double(writer.fps)))
recordVideoPeriod(fps) == UnitsPerSecond \div fps

WorkerPeriods ==
    {lookForExogenousSignalPeriod, lookForNewLogsPeriod}
        \cup {recordVideoPeriod(f) : f \in 1..MaxFps}

\* A worker that never reseeds its wake time.
Mut_NeverReseed(t, old) == FALSE

\* if ((time - oldTime).count() < 1e-12): count() is an integer number of
\* nanoseconds, so the test is true exactly when the difference is <= 0.
ClockResetDetected(t, old) == (t - old) <= 0

\* wakeUpTime after the top of a cycle: reseeded on a detected reset, then
\* advanced by one period.
NextWakeUpTime(t, old, wake, period) ==
    (IF ClockResetDetected(t, old) THEN t ELSE wake) + period

InitWorker ==
    /\ clock \in 0..1
    /\ workerPeriod \in WorkerPeriods
    /\ time = 0 /\ oldTime = 0 /\ wakeUpTime = 0
    /\ wpc = "spawned"
    /\ slept = FALSE
    /\ startTime = 0 /\ cyclesBegun = 0 /\ sawBackward = FALSE
    /\ IdleLogs /\ IdleTelemetry /\ IdleRotation /\ IdleClose
    /\ IdleLocks /\ IdleAcquisition
    /\ IdleSave
    /\ IdleExo
    /\ IdlePublish
    /\ IdleOpen
    /\ IdleSession
    /\ IdleCamera
    /\ IdleStamp
    /\ IdlePeriod
    /\ IdleDrain
    /\ IdleHandler

\* auto time = clock().now(); auto oldTime = time; auto wakeUpTime = time;
WorkerStart ==
    /\ wpc = "spawned"
    /\ time' = clock /\ oldTime' = clock /\ wakeUpTime' = clock
    /\ wpc' = "top"
    /\ startTime' = clock
    /\ UNCHANGED <<clock, workerPeriod, slept, cyclesBegun, sawBackward>>
    /\ UNCHANGED othersWorker

\* The top of a cycle: oldTime = time; time = now(); reset test; wake += period.
WorkerCycleTop ==
    /\ wpc = "top"
    /\ cyclesBegun < MaxWorkerCycles
    /\ NextWakeUpTime(clock, time, wakeUpTime, workerPeriod) <= MaxTime
    /\ oldTime' = time
    /\ time' = clock
    /\ wakeUpTime' = NextWakeUpTime(clock, time, wakeUpTime, workerPeriod)
    /\ wpc' = "scan"
    /\ cyclesBegun' = cyclesBegun + 1
    /\ sawBackward' = (sawBackward \/ clock < time)
    /\ UNCHANGED <<clock, workerPeriod, slept, startTime>>
    /\ UNCHANGED othersWorker

\* The body of the cycle (scan, connect, frame); the time it takes is the
\* clock advancing while the worker is here.
WorkerScan ==
    /\ wpc = "scan"
    /\ wpc' = "sleep"
    /\ UNCHANGED <<clock, workerPeriod, time, oldTime, wakeUpTime, slept,
                   startTime, cyclesBegun, sawBackward>>
    /\ UNCHANGED othersWorker

\* clock().sleepUntil(wakeUpTime): returns at once when the wake time is past.
WorkerSleepUntil ==
    /\ wpc = "sleep"
    /\ slept' = (clock < wakeUpTime)
    /\ clock' = IF clock < wakeUpTime THEN wakeUpTime ELSE clock
    /\ wpc' = "top"
    /\ UNCHANGED <<workerPeriod, time, oldTime, wakeUpTime, startTime,
                   cyclesBegun, sawBackward>>
    /\ UNCHANGED othersWorker

\* Time passes while the worker runs.
ClockAdvance ==
    /\ wpc \in {"spawned", "top", "scan", "sleep"}
    /\ clock < MaxTime
    /\ clock' = clock + 1
    /\ UNCHANGED <<workerPeriod, time, oldTime, wakeUpTime, wpc, slept,
                   startTime, cyclesBegun, sawBackward>>
    /\ UNCHANGED othersWorker

\* The clock source is reset: now() restarts from a lower value.
ClockReset ==
    /\ wpc \in {"spawned", "top", "scan", "sleep"}
    /\ \E t \in 0..(clock - 1) : clock' = t
    /\ UNCHANGED <<workerPeriod, time, oldTime, wakeUpTime, wpc, slept,
                   startTime, cyclesBegun, sawBackward>>
    /\ UNCHANGED othersWorker

NextWorker ==
    \/ WorkerStart
    \/ WorkerCycleTop
    \/ WorkerScan
    \/ WorkerSleepUntil
    \/ ClockAdvance
    \/ ClockReset

SpecWorker == InitWorker /\ [][NextWorker]_vars

\* C2: in a cycle whose now() reading is lower than the previous reading the
\* wake time is the new reading plus one period (not the previous wake time
\* plus one period), hence later than the reading; and when the body of that
\* cycle takes less than a period, sleepUntil waits until reading + period.
C2_ReseedOnReset ==
    /\ [](((wpc \in {"scan", "sleep"}) /\ time < oldTime)
            => (wakeUpTime = time + workerPeriod /\ wakeUpTime > time))
    /\ [][(/\ wpc = "sleep" /\ wpc' = "top"
           /\ time < oldTime
           /\ clock >= time /\ clock < time + workerPeriod)
          => (slept' /\ clock' = time + workerPeriod)]_vars

\* A cycle that read a lower time than the cycle before and whose stale
\* accumulator would have given another wake time.
C2_Witness ==
    /\ wpc = "sleep"
    /\ time < oldTime
    /\ wakeUpTime = time + workerPeriod
    /\ oldTime + 2 * workerPeriod > wakeUpTime

\* C27: in a run of a worker loop in which no reading of now() is lower than
\* the one before, the wake time of the k-th cycle is the start time plus k
\* periods, whatever the cycles take, two equal readings in a row included.
C27_WakeTimeIsStartPlusPeriods ==
    ~sawBackward => wakeUpTime = startTime + cyclesBegun * workerPeriod

(***************************************************************************)
(* Log discovery: the scan of lookForNewLogs                               *)
(***************************************************************************)

\* Scans of one session.
MaxScans == 3

\* Longest list of ports one getPortsList returns.
MaxListed == 2

\* constexpr auto textLoggingPortPrefix = "/log/";
textLoggingPortPrefix == <<"/", "l", "o", "g", "/">>

\* The producers of the model: two text-logging ports and a port that only
\* contains the prefix.
PortNames ==
    { <<"/", "l", "o", "g", "/", "a">>,
      <<"/", "l", "o", "g", "/", "b">>,
      <<"/", "a", "/", "l", "o", "g", "/">> }

\* The allow-lists of the model: none, one substring, two substrings.
SubnameLists ==
    { <<>>, << <<"a">> >>, << <<"b">>, <<"g", "/", "b">> >> }

\* std::string::find(sub) != npos
Contains(str, sub) ==
    \E i \in 0..(Len(str) - Len(sub)) : SubSeq(str, i + 1, i + Len(sub)) = sub

\* port.name.rfind(prefix, 0) == 0: the name starts with the prefix.
StartsWith(str, prefix) ==
    Len(str) >= Len(prefix) /\ SubSeq(str, 1, Len(prefix)) = prefix

\* A filter that lets every name through, whatever the allow-list holds.
Mut_hasSubstringAlways(str, substrings) == TRUE

\* YarpRobotLoggerDevice::hasSubstring
hasSubstring(str, substrings) ==
    \E k \in DOMAIN substrings : Contains(str, substrings[k])

\* A scan that does not look a producer up in the Text-Log Port Set.
Mut_NeverInPortSet(name, portNames) == TRUE

\* m_textLoggingPortNames.find(port.name) == m_textLoggingPortNames.end()
NotInPortSet(name, portNames) == name \notin portNames

\* The condition of the if in the loop over the ports.
ShouldConnect(name, portNames, subnames, alive) ==
    /\ StartsWith(name, textLoggingPortPrefix)
    /\ NotInPortSet(name, portNames)
    /\ (subnames = <<>> \/ hasSubstring(name, subnames))
    /\ name \in alive

\* The loop over yarpPorts, port after port: the set after it and the
\* producers connect was called on, in call order.
RECURSIVE ScanPorts(_, _, _, _)
ScanPorts(listing, portNames, subnames, alive) ==
    IF listing = <<>>
    THEN [names |-> portNames, calls |-> <<>>]
    ELSE LET name == Head(listing)
             hit == ShouldConnect(name, portNames, subnames, alive)
             rest == ScanPorts(Tail(listing),
                               IF hit THEN portNames \cup {name} ELSE portNames,
                               subnames, alive)
         IN [names |-> rest.names,
             calls |-> IF hit THEN <<name>> \o rest.calls ELSE rest.calls]

\* Number of occurrences of x in the sequence s.
Count(s, x) == Cardinality({i \in DOMAIN s : s[i] = x})

Listings == UNION {[1..n -> PortNames] : n \in 0..MaxListed}

InitLogs ==
    /\ m_textLoggingSubnames \in SubnameLists
    /\ m_textLoggingPortNames = {}
    /\ connectCalls = [n \in PortNames |-> 0]
    /\ connectFailed = {}
    /\ listedAlive = [n \in PortNames |-> 0]
    /\ scanCount = 0
    /\ IdleWorker /\ IdleTelemetry /\ IdleRotation /\ IdleClose
    /\ IdleLocks /\ IdleAcquisition
    /\ IdleSave
    /\ IdleExo
    /\ IdlePublish
    /\ IdleOpen
    /\ IdleSession
    /\ IdleCamera
    /\ IdleStamp
    /\ IdlePeriod
    /\ IdleDrain
    /\ IdleHandler

\* One cycle of lookForNewLogs: getPortsList, then the loop over the ports.
\* exists() and connect() answer as the network decides.
lookForNewLogsScan ==
    /\ scanCount < MaxScans
    /\ \E listing \in Listings, alive \in SUBSET PortNames,
          failing \in SUBSET PortNames :
         LET r == ScanPorts(listing, m_textLoggingPortNames,
                            m_textLoggingSubnames, alive)
         IN /\ m_textLoggingPortNames' = r.names
            /\ connectCalls' =
                 [n \in PortNames |-> connectCalls[n] + Count(r.calls, n)]
            /\ connectFailed' =
                 connectFailed \cup (Range(r.calls) \cap failing)
            /\ listedAlive' =
                 [n \in PortNames |->
                    listedAlive[n]
                      + (IF n \in Range(listing) /\ n \in alive THEN 1 ELSE 0)]
    /\ scanCount' = scanCount + 1
    /\ UNCHANGED m_textLoggingSubnames
    /\ UNCHANGED othersLogs

NextLogs ==
    \/ lookForNewLogsScan

SpecLogs == InitLogs /\ [][NextLogs]_vars

\* The producers the scan accepts when they are listed and exist.
Eligible(n) ==
    /\ StartsWith(n, textLoggingPortPrefix)
    /\ (m_textLoggingSubnames = <<>> \/ hasSubstring(n, m_textLoggingSubnames))

\* C3: connect is called at most once for a producer name in a session, and
\* exactly once for an accepted name listed (alive) in one or more scans; a
\* connected name is in the Text-Log Port Set, which never loses a member.
C3_ConnectAtMostOnce ==
    /\ [](\A n \in PortNames :
            /\ connectCalls[n] <= 1
            /\ (connectCalls[n] = 1 <=> n \in m_textLoggingPortNames)
            /\ (Eligible(n) /\ listedAlive[n] >= 1 => connectCalls[n] = 1))
    /\ [][m_textLoggingPortNames \subseteq m_textLoggingPortNames']_vars

\* A producer listed and alive in two scans, connected once.
C3_Witness ==
    \E n \in PortNames :
        Eligible(n) /\ listedAlive[n] >= 2 /\ connectCalls[n] = 1

\* C28: every member of the Text-Log Port Set is a producer whose connect
\* succeeded: no producer whose connect returned false is in the set.
C28_PortSetOnlySuccessfulConnects ==
    m_textLoggingPortNames \cap connectFailed = {}

\* The four conditions of the scan on producer n, listed and existing
\* meaning that this step counted it as such.
C32_Conditions(n) ==
    /\ Len(n) >= 5 /\ SubSeq(n, 1, 5) = <<"/", "l", "o", "g", "/">>
    /\ n \notin m_textLoggingPortNames
    /\ \/ m_textLoggingSubnames = <<>>
       \/ \E k \in DOMAIN m_textLoggingSubnames :
             Contains(n, m_textLoggingSubnames[k])
    /\ listedAlive'[n] > listedAlive[n]

\* C32: a scan connects a producer only if its name starts with /log/, it
\* is not yet in the Text-Log Port Set, the allow-list is empty or holds a
\* substring of the name, and the producer exists; a producer that fails
\* one of the four is neither connected nor added to the set in that scan.
C32_ConnectOnlyIfAccepted ==
    [][\A n \in PortNames :
         (connectCalls'[n] # connectCalls[n]
            \/ (n \in m_textLoggingPortNames') # (n \in m_textLoggingPortNames))
           => C32_Conditions(n)]_vars

\* A producer with the prefix that was listed and existed and is not in the
\* set, the allow-list naming only the other producer, which is connected.
C32_Witness ==
    /\ m_textLoggingSubnames # <<>>
    /\ listedAlive[<<"/", "l", "o", "g", "/", "a">>] > 0
    /\ connectCalls[<<"/", "l", "o", "g", "/", "a">>] = 0
    /\ <<"/", "l", "o", "g", "/", "a">> \notin m_textLoggingPortNames
    /\ connectCalls[<<"/", "l", "o", "g", "/", "b">>] = 1
    /\ listedAlive[<<"/", "a", "/", "l", "o", "g", "/">>] > 0
    /\ connectCalls[<<"/", "a", "/", "l", "o", "g", "/">>] = 0

(***************************************************************************)
(* setupTelemetry and the channel buffer between two rotations             *)
(***************************************************************************)

\* Largest save period of the model, in period units (100 units and a tick
\* of 1 unit are the 1.0 s and 0.01 s of the specification).
MaxSavePeriod == 100

\* Largest tick period of the model, in period units.
MaxDevicePeriod == 3

\* constexpr double percentage = 0.1, in percent.
percentage == 10

CeilDiv(a, b) == (a + b - 1) \div b

\* A buffer sized without the margin.
Mut_NoMargin(savePeriod, period) == {CeilDiv(savePeriod, period)}

\* config.n_samples = static_cast<int>(std::ceil((1 + percentage)
\*                                     * (config.save_period / devicePeriod)));
\* The quotient and the product are rounded to the nearest double: when
\* the exact product is an integer k the rounded product is k or the next
\* double above k (1.0 / 0.01 gives 110.00000000000001, hence 111), so ceil
\* yields k or k + 1; otherwise the rounding never crosses an integer.
setupTelemetry_n_samples(savePeriod, period) ==
    LET num == (100 + percentage) * savePeriod
        den == 100 * period
        k == CeilDiv(num, den)
    IN IF num % den = 0 THEN {k, k + 1} ELSE {k}

InitTelemetry ==
    /\ save_period \in 1..MaxSavePeriod
    /\ devicePeriod \in 1..MaxDevicePeriod
    /\ n_samples \in setupTelemetry_n_samples(save_period, devicePeriod)
    /\ buffered = 0
    /\ overwritten = FALSE
    /\ telTime \in 0..(devicePeriod - 1)
    /\ IdleWorker /\ IdleLogs /\ IdleRotation /\ IdleClose
    /\ IdleLocks /\ IdleAcquisition
    /\ IdleSave
    /\ IdleExo
    /\ IdlePublish
    /\ IdleOpen
    /\ IdleSession
    /\ IdleCamera
    /\ IdleStamp
    /\ IdlePeriod
    /\ IdleDrain
    /\ IdleHandler

\* One tick of run() on a channel whose source answers: push_back on a
\* buffer of n_samples places drops the oldest sample when it is full. The
\* rotation fires at the save period or late by less than the margin.
TelemetryTick ==
    /\ 100 * telTime < (100 + percentage) * save_period
    /\ buffered' = IF buffered < n_samples THEN buffered + 1 ELSE buffered
    /\ overwritten' = (overwritten \/ buffered >= n_samples)
    /\ telTime' = telTime + devicePeriod
    /\ UNCHANGED <<save_period, devicePeriod, n_samples>>
    /\ UNCHANGED othersTelemetry

\* The rotation timer fires r time units after the last rotation: the
\* buffer is flushed and the next window starts.
TelemetryRotate ==
    /\ telTime >= save_period
    /\ \E r \in save_period..telTime :
         /\ 100 * r < (100 + percentage) * save_period
         /\ r > telTime - devicePeriod
         /\ telTime' = telTime - r
    /\ buffered' = 0
    /\ UNCHANGED <<save_period, devicePeriod, n_samples, overwritten>>
    /\ UNCHANGED othersTelemetry

NextTelemetry ==
    \/ TelemetryTick
    \/ TelemetryRotate

SpecTelemetry == InitTelemetry /\ [][NextTelemetry]_vars

\* C4: the capacity set by setupTelemetry is at least 1.1 * save_period /
\* tick period (being an integer, at least the ceiling of it; at least 110
\* for 1.0 s and 0.01 s), and a channel fed once per tick never drops a
\* sample between two rotations.
C4_CapacityCoversWindow ==
    /\ 10 * devicePeriod * n_samples >= 11 * save_period
    /\ (save_period = 100 * devicePeriod => n_samples >= 110)
    /\ ~overwritten
    /\ buffered <= n_samples

\* 110 ticks buffered with a save period of 100 tick periods.
C4_Witness ==
    /\ save_period = 100 /\ devicePeriod = 1
    /\ buffered = 110 /\ ~overwritten

(***************************************************************************)
(* Rotation of the Buffer Store and the return value of saveCallback       *)
(***************************************************************************)

\* Samples appended in one session.
MaxSamples == 4

\* Rotations of one session.
MaxRotations == 3

\* Camera streams of one session.
MaxCameras == 2

\* A camera stream as saveCallback sees it: whether m_videoWriters[camera].rgb
\* is set, whether the bridge knows the image dimensions of the camera, and
\* the save mode.
CameraStreams ==
    [saver : BOOLEAN, dims : BOOLEAN, mode : {"video", "frame"}]

\* saveVideo: fails only without an image saver.
saveVideo_returns(cam) == cam.saver

\* openVideoWriter: fails without an image saver or without the dimensions.
openVideoWriter_returns(cam) == cam.saver /\ cam.dims

\* createFramesFolder: fails only without an image saver.
createFramesFolder_returns(cam) == cam.saver

\* The loop of saveCallback over m_rgbCamerasList: false at the first
\* stream whose saveVideo, openVideoWriter or createFramesFolder fails.
RECURSIVE saveCallback_returns(_, _)
saveCallback_returns(cams, method) ==
    IF cams = <<>> THEN TRUE
    ELSE LET cam == Head(cams)
         IN IF ~saveVideo_returns(cam) THEN FALSE
            ELSE IF method # "periodic"
                 THEN saveCallback_returns(Tail(cams), method)
            ELSE IF cam.mode = "video" /\ ~openVideoWriter_returns(cam)
                 THEN FALSE
            ELSE IF cam.mode = "frame" /\ ~createFramesFolder_returns(cam)
                 THEN FALSE
            ELSE saveCallback_returns(Tail(cams), method)

\* A store that clears its queues whatever the outcome of the rotation.
Mut_ClearAlways(queue, ok) == <<>>

\* Buffer Store, step (c) of a rotation: on success the in-memory queues are
\* cleared, on failure the buffered data is retained.
QueueAfterRotation(queue, ok) == IF ok THEN <<>> ELSE queue

\* Buffer Store, step (a) of a rotation: what the backend has acknowledged
\* after the hand-off of the current buffer.
PersistedAfterHandOff(done, queue, backendOk) ==
    IF backendOk THEN done \cup Range(queue) ELSE done

InitRotation ==
    /\ rotCameras \in UNION {[1..n -> CameraStreams] : n \in 0..MaxCameras}
    /\ rotQueue = <<>>
    /\ persisted = {}
    /\ appended = 0
    /\ rotLog = <<>>
    /\ heldAtFailure = {}
    /\ IdleWorker /\ IdleLogs /\ IdleTelemetry /\ IdleClose
    /\ IdleLocks /\ IdleAcquisition
    /\ IdleSave
    /\ IdleExo
    /\ IdlePublish
    /\ IdleOpen
    /\ IdleSession
    /\ IdleCamera
    /\ IdleStamp
    /\ IdlePeriod
    /\ IdleDrain
    /\ IdleHandler

\* m_bufferManager.push_back: the sample joins the queue of its channel.
RotationAppend ==
    /\ appended < MaxSamples
    /\ appended' = appended + 1
    /\ rotQueue' = Append(rotQueue, appended + 1)
    /\ UNCHANGED <<rotCameras, persisted, rotLog, heldAtFailure>>
    /\ UNCHANGED othersRotation

\* The rotation timer fires: hand-off to the persistence backend, then the
\* callback set by setSaveCallback, then the queues are cleared or retained.
Rotate ==
    /\ Len(rotLog) < MaxRotations
    /\ \E backendOk \in BOOLEAN, method \in {"periodic", "final"} :
         LET ok == backendOk /\ saveCallback_returns(rotCameras, method)
         IN /\ persisted' = PersistedAfterHandOff(persisted, rotQueue, backendOk)
            /\ rotQueue' = QueueAfterRotation(rotQueue, ok)
            /\ rotLog' = Append(rotLog, ok)
            /\ heldAtFailure' =
                 IF ok THEN heldAtFailure ELSE Range(rotQueue)
    /\ UNCHANGED <<rotCameras, appended>>
    /\ UNCHANGED othersRotation

NextRotation ==
    \/ RotationAppend
    \/ Rotate

SpecRotation == InitRotation /\ [][NextRotation]_vars

NumCameraWorkers == 2

CameraOrder == SubSeq(<<"cam1", "cam2", "cam3">>, 1, NumCameraWorkers)

CameraWorkers == Range(CameraOrder)

Workers == CameraWorkers \cup {"logs", "exo"}

\* attachAll has spawned the two discovery threads; the camera threads are
\* spawned at its end, all of them or (attachAll failed before) none.
InitClose ==
    /\ running = [w \in Workers |-> FALSE]
    /\ \E cams \in {"none", "spawned"} :
         tpc = [w \in Workers |-> IF w \in CameraWorkers THEN cams
                                                         ELSE "spawned"]
    /\ closePc = [at |-> "idle", i |-> 0]
    /\ closeCleared = {}
    /\ IdleWorker /\ IdleLogs /\ IdleTelemetry /\ IdleRotation
    /\ IdleLocks /\ IdleAcquisition
    /\ IdleSave
    /\ IdleExo
    /\ IdlePublish
    /\ IdleOpen
    /\ IdleSession
    /\ IdleCamera
    /\ IdleStamp
    /\ IdlePeriod
    /\ IdleDrain
    /\ IdleHandler

\* The first statements of a worker: writer.recordVideoIsRunning = true,
\* m_lookForNewLogsIsRunning = true, m_lookForNewExogenousSignalIsRunning = true.
WorkerThreadStart(w) ==
    /\ tpc[w] = "spawned"
    /\ running' = [running EXCEPT ![w] = TRUE]
    /\ tpc' = [tpc EXCEPT ![w] = "top"]
    /\ UNCHANGED <<closePc, closeCleared>>
    /\ UNCHANGED othersClose

\* while (flag): the test at the top of a cycle.
WorkerLoopTest(w) ==
    /\ tpc[w] = "top"
    /\ tpc' = [tpc EXCEPT ![w] = IF running[w] THEN "body" ELSE "exited"]
    /\ UNCHANGED <<running, closePc, closeCleared>>
    /\ UNCHANGED othersClose

\* One cycle of the loop, its sleepUntil included.
WorkerCycle(w) ==
    /\ tpc[w] = "body"
    /\ tpc' = [tpc EXCEPT ![w] = "top"]
    /\ UNCHANGED <<running, closePc, closeCleared>>
    /\ UNCHANGED othersClose

\* close() is called.
CloseBegin ==
    /\ closePc.at = "idle"
    /\ closePc' = [at |-> "stopVideo", i |-> 1]
    /\ UNCHANGED <<running, tpc, closeCleared>>
    /\ UNCHANGED othersClose

\* for (...) writer.recordVideoIsRunning = false;
CloseStopVideo ==
    /\ closePc.at = "stopVideo"
    /\ IF closePc.i <= NumCameraWorkers
       THEN /\ running' = [running EXCEPT ![CameraOrder[closePc.i]] = FALSE]
            /\ closeCleared' = closeCleared \cup {CameraOrder[closePc.i]}
            /\ closePc' = [closePc EXCEPT !.i = @ + 1]
       ELSE /\ closePc' = [at |-> "joinVideo", i |-> 1]
            /\ UNCHANGED <<running, closeCleared>>
    /\ UNCHANGED tpc
    /\ UNCHANGED othersClose

\* for (...) if (writer.videoThread.joinable()) writer.videoThread.join();
CloseJoinVideo ==
    /\ closePc.at = "joinVideo"
    /\ IF closePc.i <= NumCameraWorkers
       THEN /\ tpc[CameraOrder[closePc.i]] \in {"none", "exited"}
            /\ closePc' = [closePc EXCEPT !.i = @ + 1]
       ELSE closePc' = [at |-> "stopLogs", i |-> 0]
    /\ UNCHANGED <<running, tpc, closeCleared>>
    /\ UNCHANGED othersClose

\* m_lookForNewLogsIsRunning = false;
CloseStopLogs ==
    /\ closePc.at = "stopLogs"
    /\ running' = [running EXCEPT !["logs"] = FALSE]
    /\ closeCleared' = closeCleared \cup {"logs"}
    /\ closePc' = [at |-> "joinLogs", i |-> 0]
    /\ UNCHANGED tpc
    /\ UNCHANGED othersClose

\* m_lookForNewLogsThread.join();
CloseJoinLogs ==
    /\ closePc.at = "joinLogs"
    /\ tpc["logs"] = "exited"
    /\ closePc' = [at |-> "stopExo", i |-> 0]
    /\ UNCHANGED <<running, tpc, closeCleared>>
    /\ UNCHANGED othersClose

\* m_lookForNewExogenousSignalIsRunning = false;
CloseStopExo ==
    /\ closePc.at = "stopExo"
    /\ running' = [running EXCEPT !["exo"] = FALSE]
    /\ closeCleared' = closeCleared \cup {"exo"}
    /\ closePc' = [at |-> "joinExo", i |-> 0]
    /\ UNCHANGED tpc
    /\ UNCHANGED othersClose

\* m_lookForNewExogenousSignalThread.join(); return true;
CloseJoinExo ==
    /\ closePc.at = "joinExo"
    /\ tpc["exo"] = "exited"
    /\ closePc' = [at |-> "returned", i |-> 0]
    /\ UNCHANGED <<running, tpc, closeCleared>>
    /\ UNCHANGED othersClose

NextClose ==
    \/ \E w \in Workers : WorkerThreadStart(w)
    \/ \E w \in Workers : WorkerLoopTest(w)
    \/ \E w \in Workers : WorkerCycle(w)
    \/ CloseBegin
    \/ CloseStopVideo
    \/ CloseJoinVideo
    \/ CloseStopLogs
    \/ CloseJoinLogs
    \/ CloseStopExo
    \/ CloseJoinExo

SpecClose == InitClose /\ [][NextClose]_vars

\* C6: once close() has reset the running flag of a worker, the worker
\* finds the flag false at the top of its cycle (so it leaves its loop and
\* close() can join it), under every interleaving with the worker's start.
C6_WorkerSeesStop ==
    \A w \in Workers :
        (w \in closeCleared /\ tpc[w] = "top") => ~running[w]

(***************************************************************************)
(* The locks: run(), recordVideo, lookForExogenousSignals, saveCallback    *)
(***************************************************************************)

\* Sensor-bridge channels run() appends to in one tick.
NumRunChannels == 2

LockThreads == {"run", "cam", "exo", "save"}

\* A lock that any thread can take at once.
Mut_LockAlwaysFree(owner) == TRUE

\* std::lock_guard lock(m_bufferManagerMutex): blocks until the mutex is
\* free.
BufferLockFree(owner) == owner = "free"

\* std::lock_guard on signal.mutex or on imageSaver->mutex.
MutexFree(owner) == owner = "free"

\* Positions at which a thread is inside m_bufferManager.push_back or
\* m_bufferManager.addChannel.
InBufferMutation(t) ==
    \/ t = "run" /\ lpc[t] \in {"push", "sigPush", "addChannel"}
    \/ t = "cam" /\ lpc[t] = "push"

\* Positions at which a thread reads or writes writer.rgb->writer or
\* writer.rgb->framesPath.
AccessesHandle(t) ==
    \/ t = "cam" /\ lpc[t] \in {"write", "imwrite"}
    \/ t = "save" /\ lpc[t] \in {"release", "replace", "setPath", "mkdir"}

\* attachAll has returned: the periodic thread and the workers are started,
\* no lock is taken.
InitLocks ==
    /\ lockOwner = [buf |-> "free", sig |-> "free", cam |-> "free"]
    /\ lpc = [run |-> "idle", cam |-> "top", exo |-> "top", save |-> "idle"]
    /\ camSaveMode \in {"video", "frame"}
    /\ signalConnected = FALSE
    /\ runIdx = 0
    /\ heldAppends = 0
    /\ saveMethod = "none"
    /\ encoderOpen = (camSaveMode = "video")
    /\ IdleWorker /\ IdleLogs /\ IdleTelemetry /\ IdleRotation /\ IdleClose
    /\ IdleAcquisition
    /\ IdleSave
    /\ IdleExo
    /\ IdlePublish
    /\ IdleOpen
    /\ IdleSession
    /\ IdleCamera
    /\ IdleStamp
    /\ IdlePeriod
    /\ IdleDrain
    /\ IdleHandler

\* run(): clearData, advance and the clock reading, before the lock.
RunTickBegin ==
    /\ lpc.run = "idle"
    /\ lpc' = [lpc EXCEPT !.run = "lockWait"]
    /\ UNCHANGED <<lockOwner, camSaveMode, signalConnected, runIdx,
                   heldAppends, saveMethod>>
    /\ UNCHANGED encoderOpen
    /\ UNCHANGED othersLocks

\* std::lock_guard lock(m_bufferManagerMutex), held to the end of run().
RunLockBuffer ==
    /\ lpc.run = "lockWait"
    /\ BufferLockFree(lockOwner.buf)
    /\ lockOwner' = [lockOwner EXCEPT !.buf = "run"]
    /\ lpc' = [lpc EXCEPT !.run = "readSource"]
    /\ runIdx' = 1
    /\ heldAppends' = 0
    /\ UNCHANGED <<camSaveMode, signalConnected, saveMethod>>
    /\ UNCHANGED encoderOpen
    /\ UNCHANGED othersLocks

\* if (m_robotSensorBridge->get...(buffer)): the read of one source; after
\* the last source run() goes on to the vectors-collection signals.
RunReadSource ==
    /\ lpc.run = "readSource"
    /\ IF runIdx > NumRunChannels
       THEN /\ lpc' = [lpc EXCEPT !.run = "sigWait"]
            /\ UNCHANGED runIdx
       ELSE \E ok \in BOOLEAN :
              IF ok THEN /\ lpc' = [lpc EXCEPT !.run = "push"]
                         /\ UNCHANGED runIdx
                    ELSE /\ runIdx' = runIdx + 1
                         /\ UNCHANGED lpc
    /\ UNCHANGED <<lockOwner, camSaveMode, signalConnected, heldAppends,
                   saveMethod>>
    /\ UNCHANGED encoderOpen
    /\ UNCHANGED othersLocks

\* m_bufferManager.push_back(buffer, time, name) and populateData.
RunPushBack ==
    /\ lpc.run = "push"
    /\ heldAppends' = heldAppends + 1
    /\ runIdx' = runIdx + 1
    /\ lpc' = [lpc EXCEPT !.run = "readSource"]
    /\ UNCHANGED <<lockOwner, camSaveMode, signalConnected, saveMethod>>
    /\ UNCHANGED encoderOpen
    /\ UNCHANGED othersLocks

\* std::lock_guard<std::mutex> lock(signal.mutex) in the loop over
\* m_vectorsCollectionSignals.
RunLockSignal ==
    /\ lpc.run = "sigWait"
    /\ MutexFree(lockOwner.sig)
    /\ lockOwner' = [lockOwner EXCEPT !.sig = "run"]
    /\ lpc' = [lpc EXCEPT !.run = "sigRead"]
    /\ UNCHANGED <<camSaveMode, signalConnected, runIdx, heldAppends,
                   saveMethod>>
    /\ UNCHANGED encoderOpen
    /\ UNCHANGED othersLocks

\* signal.client.readData(false): a collection or nullptr.
RunReadSignal ==
    /\ lpc.run = "sigRead"
    /\ \E data \in BOOLEAN :
         IF data THEN /\ lpc' = [lpc EXCEPT !.run = "sigPush"]
                      /\ UNCHANGED lockOwner
                 ELSE /\ lpc' = [lpc EXCEPT !.run = "drain"]
                      /\ lockOwner' = [lockOwner EXCEPT !.sig = "free"]
    /\ UNCHANGED <<camSaveMode, signalConnected, runIdx, heldAppends,
                   saveMethod>>
    /\ UNCHANGED encoderOpen
    /\ UNCHANGED othersLocks

\* push_back of the vectors of the collection; the signal lock is released
\* at the end of the iteration.
RunPushSignal ==
    /\ lpc.run = "sigPush"
    /\ heldAppends' = heldAppends + 1
    /\ lockOwner' = [lockOwner EXCEPT !.sig = "free"]
    /\ lpc' = [lpc EXCEPT !.run = "drain"]
    /\ UNCHANGED <<camSaveMode, signalConnected, runIdx, saveMethod>>
    /\ UNCHANGED encoderOpen
    /\ UNCHANGED othersLocks

\* The loop over the pending text-log messages: a message of a producer
\* seen for the first time adds a channel.
RunDrainTextLog ==
    /\ lpc.run = "drain"
    /\ \E firstSeen \in BOOLEAN :
         lpc' = [lpc EXCEPT !.run = IF firstSeen THEN "addChannel" ELSE "send"]
    /\ UNCHANGED <<lockOwner, camSaveMode, signalConnected, runIdx,
                   heldAppends, saveMethod>>
    /\ UNCHANGED encoderOpen
    /\ UNCHANGED othersLocks

\* m_bufferManager.addChannel({signalName, {1, 1}}).
RunAddChannel ==
    /\ lpc.run = "addChannel"
    /\ heldAppends' = heldAppends + 1
    /\ lpc' = [lpc EXCEPT !.run = "send"]
    /\ UNCHANGED <<lockOwner, camSaveMode, signalConnected, runIdx,
                   saveMethod>>
    /\ UNCHANGED encoderOpen
    /\ UNCHANGED othersLocks

\* m_vectorCollectionRTDataServer.sendData(), then run() returns and the
\* guard releases m_bufferManagerMutex.
RunSendData ==
    /\ lpc.run = "send"
    /\ lockOwner' = [lockOwner EXCEPT !.buf = "free"]
    /\ lpc' = [lpc EXCEPT !.run = "idle"]
    /\ heldAppends' = 0
    /\ runIdx' = 0
    /\ UNCHANGED <<camSaveMode, signalConnected, saveMethod>>
    /\ UNCHANGED encoderOpen
    /\ UNCHANGED othersLocks

\* recordVideo: m_cameraBridge->getColorImage(cameraName, writer.rgb->frame),
\* then the branch on writer.rgb->saveMode.
CamGetImage ==
    /\ lpc.cam = "top"
    /\ lpc' = [lpc EXCEPT !.cam = IF camSaveMode = "video" THEN "streamWait"
                                                           ELSE "imwrite"]
    /\ UNCHANGED <<lockOwner, camSaveMode, signalConnected, runIdx,
                   heldAppends, saveMethod>>
    /\ UNCHANGED encoderOpen
    /\ UNCHANGED othersLocks

\* Video: std::lock_guard<std::mutex> lock(writer.rgb->mutex).
CamLockStream ==
    /\ lpc.cam = "streamWait"
    /\ MutexFree(lockOwner.cam)
    /\ lockOwner' = [lockOwner EXCEPT !.cam = "cam"]
    /\ lpc' = [lpc EXCEPT !.cam = "write"]
    /\ UNCHANGED <<camSaveMode, signalConnected, runIdx, heldAppends,
                   saveMethod>>
    /\ UNCHANGED encoderOpen
    /\ UNCHANGED othersLocks

\* Video: writer.rgb->writer->write(writer.rgb->frame), end of the scope.
CamWriteFrame ==
    /\ lpc.cam = "write"
    /\ lockOwner' = [lockOwner EXCEPT !.cam = "free"]
    /\ lpc' = [lpc EXCEPT !.cam = "sleep"]
    /\ UNCHANGED <<camSaveMode, signalConnected, runIdx, heldAppends,
                   saveMethod>>
    /\ UNCHANGED encoderOpen
    /\ UNCHANGED othersLocks

\* Frame: imgPath = writer.rgb->framesPath / ...; cv::imwrite(imgPath, frame).
CamImwrite ==
    /\ lpc.cam = "imwrite"
    /\ lpc' = [lpc EXCEPT !.cam = "bufWait"]
    /\ UNCHANGED <<lockOwner, camSaveMode, signalConnected, runIdx,
                   heldAppends, saveMethod>>
    /\ UNCHANGED encoderOpen
    /\ UNCHANGED othersLocks

\* Frame: std::lock_guard lock(m_bufferManagerMutex).
CamLockBuffer ==
    /\ lpc.cam = "bufWait"
    /\ BufferLockFree(lockOwner.buf)
    /\ lockOwner' = [lockOwner EXCEPT !.buf = "cam"]
    /\ lpc' = [lpc EXCEPT !.cam = "push"]
    /\ heldAppends' = 0
    /\ UNCHANGED <<camSaveMode, signalConnected, runIdx, saveMethod>>
    /\ UNCHANGED encoderOpen
    /\ UNCHANGED othersLocks

\* Frame: m_bufferManager.push_back(time, time, "camera::<name>::rgb"), end
\* of the scope.
CamPushBack ==
    /\ lpc.cam = "push"
    /\ lockOwner' = [lockOwner EXCEPT !.buf = "free"]
    /\ lpc' = [lpc EXCEPT !.cam = "sleep"]
    /\ heldAppends' = 0
    /\ UNCHANGED <<camSaveMode, signalConnected, runIdx, saveMethod>>
    /\ UNCHANGED encoderOpen
    /\ UNCHANGED othersLocks

\* imageIndex++, yield, sleepUntil(wakeUpTime).
CamSleep ==
    /\ lpc.cam = "sleep"
    /\ lpc' = [lpc EXCEPT !.cam = "top"]
    /\ UNCHANGED <<lockOwner, camSaveMode, signalConnected, runIdx,
                   heldAppends, saveMethod>>
    /\ UNCHANGED encoderOpen
    /\ UNCHANGED othersLocks

\* connectToExogeneous: std::lock_guard<std::mutex> lock(signal.mutex);
\* if (signal.connected) continue;
ExoLockSignal ==
    /\ lpc.exo = "top"
    /\ MutexFree(lockOwner.sig)
    /\ IF signalConnected
       THEN /\ lpc' = [lpc EXCEPT !.exo = "sleep"]
            /\ UNCHANGED lockOwner
       ELSE /\ lpc' = [lpc EXCEPT !.exo = "connect"]
            /\ lockOwner' = [lockOwner EXCEPT !.sig = "exo"]
    /\ UNCHANGED <<camSaveMode, signalConnected, runIdx, heldAppends,
                   saveMethod>>
    /\ UNCHANGED encoderOpen
    /\ UNCHANGED othersLocks

\* signal.connected = signal.connect(); if (!signal.connected) continue;
ExoConnect ==
    /\ lpc.exo = "connect"
    /\ \E ok \in BOOLEAN :
         /\ signalConnected' = ok
         /\ IF ok THEN /\ lpc' = [lpc EXCEPT !.exo = "getMetadata"]
                       /\ UNCHANGED lockOwner
                  ELSE /\ lpc' = [lpc EXCEPT !.exo = "sleep"]
                       /\ lockOwner' = [lockOwner EXCEPT !.sig = "free"]
    /\ UNCHANGED <<camSaveMode, runIdx, heldAppends, saveMethod>>
    /\ UNCHANGED encoderOpen
    /\ UNCHANGED othersLocks

\* signal.client.getMetadata(signal.metadata), whatever it returns; end of
\* the iteration.
ExoGetMetadata ==
    /\ lpc.exo = "getMetadata"
    /\ lockOwner' = [lockOwner EXCEPT !.sig = "free"]
    /\ lpc' = [lpc EXCEPT !.exo = "sleep"]
    /\ UNCHANGED <<camSaveMode, signalConnected, runIdx, heldAppends,
                   saveMethod>>
    /\ UNCHANGED encoderOpen
    /\ UNCHANGED othersLocks

\* yield, sleepUntil(wakeUpTime).
ExoSleep ==
    /\ lpc.exo = "sleep"
    /\ lpc' = [lpc EXCEPT !.exo = "top"]
    /\ UNCHANGED <<lockOwner, camSaveMode, signalConnected, runIdx,
                   heldAppends, saveMethod>>
    /\ UNCHANGED encoderOpen
    /\ UNCHANGED othersLocks

\* The buffer manager calls saveCallback(fileName, method).
SaveCallbackBegin ==
    /\ lpc.save = "idle"
    /\ \E method \in {"periodic", "final"} : saveMethod' = method
    /\ lpc' = [lpc EXCEPT !.save = "saveVideoWait"]
    /\ UNCHANGED <<lockOwner, camSaveMode, signalConnected, runIdx,
                   heldAppends>>
    /\ UNCHANGED encoderOpen
    /\ UNCHANGED othersLocks

\* saveVideo: std::lock_guard<std::mutex> lock(imageSaver->mutex).
SaveVideoLock ==
    /\ lpc.save = "saveVideoWait"
    /\ MutexFree(lockOwner.cam)
    /\ lockOwner' = [lockOwner EXCEPT !.cam = "save"]
    /\ lpc' = [lpc EXCEPT !.save = "release"]
    /\ UNCHANGED <<camSaveMode, signalConnected, runIdx, heldAppends,
                   saveMethod>>
    /\ UNCHANGED encoderOpen
    /\ UNCHANGED othersLocks

\* saveVideo: imageSaver->writer->release() in Video mode and the rename;
\* then, for a periodic rotation, openVideoWriter or createFramesFolder.
SaveVideoRelease ==
    /\ lpc.save = "release"
    /\ lockOwner' = [lockOwner EXCEPT !.cam = "free"]
    /\ lpc' = [lpc EXCEPT !.save =
                 IF saveMethod # "periodic" THEN "idle"
                 ELSE IF camSaveMode = "video" THEN "openWait"
                 ELSE "setPath"]
    /\ UNCHANGED <<camSaveMode, signalConnected, runIdx, heldAppends,
                   saveMethod>>
    /\ encoderOpen' = (encoderOpen /\ camSaveMode # "video")
    /\ UNCHANGED othersLocks

\* openVideoWriter: std::lock_guard guard(imageSaver->mutex).
OpenVideoWriterLock ==
    /\ lpc.save = "openWait"
    /\ MutexFree(lockOwner.cam)
    /\ lockOwner' = [lockOwner EXCEPT !.cam = "save"]
    /\ lpc' = [lpc EXCEPT !.save = "replace"]
    /\ UNCHANGED <<camSaveMode, signalConnected, runIdx, heldAppends,
                   saveMethod>>
    /\ UNCHANGED encoderOpen
    /\ UNCHANGED othersLocks

\* openVideoWriter: imageSaver->writer = std::make_shared<cv::VideoWriter>(...).
OpenVideoWriterReplace ==
    /\ lpc.save = "replace"
    /\ lockOwner' = [lockOwner EXCEPT !.cam = "free"]
    /\ lpc' = [lpc EXCEPT !.save = "idle"]
    /\ UNCHANGED <<camSaveMode, signalConnected, runIdx, heldAppends,
                   saveMethod>>
    /\ encoderOpen' = TRUE
    /\ UNCHANGED othersLocks

\* createFramesFolder: imageSaver->framesPath = "output_<camera>_<type>",
\* the statement before the guard.
CreateFramesFolderSetPath ==
    /\ lpc.save = "setPath"
    /\ lpc' = [lpc EXCEPT !.save = "mkdirWait"]
    /\ UNCHANGED <<lockOwner, camSaveMode, signalConnected, runIdx,
                   heldAppends, saveMethod>>
    /\ UNCHANGED encoderOpen
    /\ UNCHANGED othersLocks

\* createFramesFolder: std::lock_guard guard(imageSaver->mutex).
CreateFramesFolderLock ==
    /\ lpc.save = "mkdirWait"
    /\ MutexFree(lockOwner.cam)
    /\ lockOwner' = [lockOwner EXCEPT !.cam = "save"]
    /\ lpc' = [lpc EXCEPT !.save = "mkdir"]
    /\ UNCHANGED <<camSaveMode, signalConnected, runIdx, heldAppends,
                   saveMethod>>
    /\ UNCHANGED encoderOpen
    /\ UNCHANGED othersLocks

\* createFramesFolder: std::filesystem::create_directory(framesPath).
CreateFramesFolderMkdir ==
    /\ lpc.save = "mkdir"
    /\ lockOwner' = [lockOwner EXCEPT !.cam = "free"]
    /\ lpc' = [lpc EXCEPT !.save = "idle"]
    /\ UNCHANGED <<camSaveMode, signalConnected, runIdx, heldAppends,
                   saveMethod>>
    /\ UNCHANGED encoderOpen
    /\ UNCHANGED othersLocks

NextLocks ==
    \/ RunTickBegin
    \/ RunLockBuffer
    \/ RunReadSource
    \/ RunPushBack
    \/ RunLockSignal
    \/ RunReadSignal
    \/ RunPushSignal
    \/ RunDrainTextLog
    \/ RunAddChannel
    \/ RunSendData
    \/ CamGetImage
    \/ CamLockStream
    \/ CamWriteFrame
    \/ CamImwrite
    \/ CamLockBuffer
    \/ CamPushBack
    \/ CamSleep
    \/ ExoLockSignal
    \/ ExoConnect
    \/ ExoGetMetadata
    \/ ExoSleep
    \/ SaveCallbackBegin
    \/ SaveVideoLock
    \/ SaveVideoRelease
    \/ OpenVideoWriterLock
    \/ OpenVideoWriterReplace
    \/ CreateFramesFolderSetPath
    \/ CreateFramesFolderLock
    \/ CreateFramesFolderMkdir

SpecLocks == InitLocks /\ [][NextLocks]_vars

\* C7: every thread inside a Buffer Store mutation (push_back or addChannel
\* of run(), push_back of the camera worker) owns m_bufferManagerMutex, and
\* the Acquisition Loop and the camera worker are never inside a mutation
\* at the same time.
C7_MutationsUnderLock ==
    /\ \A t \in {"run", "cam"} : InBufferMutation(t) => lockOwner.buf = t
    /\ ~(InBufferMutation("run") /\ InBufferMutation("cam"))

\* The camera worker appends while run() waits for the lock.
C7_Witness ==
    /\ InBufferMutation("cam") /\ lockOwner.buf = "cam"
    /\ lpc.run = "lockWait"

\* C8: one hold of m_bufferManagerMutex covers at most one append, and the
\* lock is not held by a thread that reads a source, waits for another
\* lock, drains the text-log messages or publishes.
C8_LockCoversOneAppend ==
    /\ heldAppends <= 1
    /\ lockOwner.buf = "run"
         => lpc.run \notin {"readSource", "sigWait", "sigRead", "drain", "send"}

\* C9: no thread owns a lock while it is in a connection attempt or in a
\* metadata negotiation, so the Acquisition Loop never waits for a lock
\* whose owner is connecting.
C9_NoLockAcrossConnect ==
    /\ lpc.exo \in {"connect", "getMetadata"} => lockOwner.sig # "exo"
    /\ ~(lpc.run = "sigWait" /\ lockOwner.sig = "exo")

\* C10: a thread that reads or writes the encoder handle or the frames
\* path of the stream owns the lock of the stream, and the worker never
\* reads the path while the Save Orchestrator assigns it.
C10_HandleUnderStreamLock ==
    /\ \A t \in {"cam", "save"} : AccessesHandle(t) => lockOwner.cam = t
    /\ ~(lpc.cam = "imwrite" /\ lpc.save = "setPath")

\* The locks thread t owns.
HeldBy(t) == {l \in DOMAIN lockOwner : lockOwner[l] = t}

\* The lock thread t is about to take, "none" if it is not at a lock_guard.
Wanted(t) ==
    CASE t = "run" /\ lpc.run = "lockWait" -> "buf"
      [] t = "run" /\ lpc.run = "sigWait" -> "sig"
      [] t = "cam" /\ lpc.cam = "streamWait" -> "cam"
      [] t = "cam" /\ lpc.cam = "bufWait" -> "buf"
      [] t = "exo" /\ lpc.exo = "top" -> "sig"
      [] t = "save" /\ lpc.save \in {"saveVideoWait", "openWait", "mkdirWait"}
           -> "cam"
      [] OTHER -> "none"

\* The thread that owns the lock t waits for, "none" if t does not wait.
Blocker(t) ==
    IF t = "none" \/ Wanted(t) = "none" \/ lockOwner[Wanted(t)] = "free"
    THEN "none"
    ELSE lockOwner[Wanted(t)]

\* C33: the locks are taken in an acyclic order. Only run() owns two locks
\* at once, the buffer lock and then a binding lock; the discovery worker,
\* the camera worker and saveCallback own at most one; following from a
\* waiting thread the owner of the lock it waits for always ends at a thread
\* that does not wait, so no interleaving reaches a deadlock.
C33_LockOrderAcyclic ==
    /\ \A t \in {"cam", "exo", "save"} : Cardinality(HeldBy(t)) <= 1
    /\ HeldBy("run") \in {{}, {"buf"}, {"buf", "sig"}}
    /\ \A t \in LockThreads : Blocker(Blocker(Blocker(Blocker(t)))) = "none"
    /\ \E t \in LockThreads : Blocker(t) = "none"

\* run() owns the buffer lock and the binding lock while the camera worker
\* waits for the buffer lock, the discovery worker for the binding lock and
\* saveCallback owns the stream lock.
C33_Witness ==
    /\ HeldBy("run") = {"buf", "sig"}
    /\ Blocker("cam") = "run" /\ Blocker("exo") = "run"
    /\ HeldBy("save") = {"cam"}

\* C34: in video mode the camera worker never writes a frame to an encoder
\* that saveCallback has released and not yet replaced: whenever the worker
\* is at writer->write(frame), the encoder of the stream is open.
C34_WriteOnlyToOpenEncoder ==
    lpc.cam = "write" => encoderOpen

(***************************************************************************)
(* attachAll and run(): the sensor-bridge channels                          *)
(***************************************************************************)

\* Ticks of one session.
MaxTicks == 2

\* Sensor names the bridge may list, in the order of its lists.
SensorOrder == <<"a", "b">>

SensorNames == Range(SensorOrder)

\* Sensor names the bridge may list as IMU.
IMUNames == {"a"}

\* The list of the bridge that holds the names of S.
ListOf(S) == SelectSeq(SensorOrder, LAMBDA n : n \in S)

\* JOINT_STATE_POSITIONS_NAME, the channel that stands for the joint and
\* motor channels: each of them has one read and one push_back of the same
\* form.
JointChannel == <<"joints_state", "positions">>

JointSource == <<"joint", "positions">>

GyroSource(n) == <<"gyro", n>>

IMUSource(n) == <<"imu", n>>

\* The channels an IMU measurement is appended to, in the order of run().
IMUChannelKinds == <<"accelerometers", "gyros", "orientations">>

\* The sources run() reads in a tick: the joint block and the inertial
\* block are guarded by their flags, the IMU loop by nothing.
SourcesRead ==
    (IF m_streamJointStates THEN {JointSource} ELSE {})
    \cup (IF m_streamInertials THEN {GyroSource(n) : n \in gyroscopesList}
                               ELSE {})
    \cup {IMUSource(n) : n \in IMUsList}

\* The sources whose value run() appends to channel c.
ChannelSources(c) ==
    {src \in SourcesRead :
        \/ src = JointSource /\ c = JointChannel
        \/ src[1] = "gyro" /\ c = <<"gyros", src[2]>>
        \/ /\ src[1] = "imu" /\ c[2] = src[2]
           /\ c[1] \in Range(IMUChannelKinds)}

\* A bridge that appends whatever the read returned.
Mut_AppendAlways(src, okSet) == TRUE

\* if (m_robotSensorBridge->get...(name, buffer)) { push_back ... }
ReadSucceeded(src, okSet) == src \in okSet

\* The names of a list whose read succeeded, in list order.
SucceededOf(list, kind, okSet) ==
    SelectSeq(list, LAMBDA n : ReadSucceeded(<<kind, n>>, okSet))

\* The channels run() calls push_back on in one tick, in the order of the
\* calls.
run_pushes(okSet) ==
    LET gyros == SucceededOf(ListOf(gyroscopesList), "gyro", okSet)
        imus == SucceededOf(ListOf(IMUsList), "imu", okSet)
    IN (IF m_streamJointStates /\ ReadSucceeded(JointSource, okSet)
        THEN <<JointChannel>> ELSE <<>>)
       \o (IF m_streamInertials
           THEN [i \in 1..Len(gyros) |-> <<"gyros", gyros[i]>>] ELSE <<>>)
       \o [i \in 1..(3 * Len(imus)) |->
             <<IMUChannelKinds[((i - 1) % 3) + 1], imus[((i - 1) \div 3) + 1]>>]

\* The channels attachAll registers, in the order of its calls.
attachAll_registrations ==
    LET gyros == ListOf(gyroscopesList)
        imus == ListOf(IMUsList)
    IN (IF m_streamJointStates THEN <<JointChannel>> ELSE <<>>)
       \o (IF m_streamInertials
           THEN [i \in 1..Len(gyros) |-> <<"gyros", gyros[i]>>]
                \o [i \in 1..(3 * Len(imus)) |->
                      <<IMUChannelKinds[((i - 1) % 3) + 1],
                        imus[((i - 1) \div 3) + 1]>>]
           ELSE <<>>)

\* Keys of m_vectorSignals (setupExogenousInputs).
ExoVectorNames == {"v1"}

\* signal.signalName of a vector signal, the name of its channel.
ExoVectorChannel(n) == <<"exo", n>>

\* An attachAll that adds the channel of every vector signal without looking
\* at what the read returned.
Mut_attachAll_exogenous_unread(arrived) ==
    {ExoVectorChannel(n) : n \in ExoVectorNames}

\* The exogenous channels attachAll adds: one per vector signal whose port
\* returned a vector when attachAll read it.
attachAll_exogenous(arrived) == {ExoVectorChannel(n) : n \in arrived}

\* Buffer Store: addChannel on an existing name with the same shape is
\* idempotent (the two registrations of a name have the same element names).
addChannel_returns(name, channels) == TRUE

\* Real-Time Publisher: one metadata entry per channel, write-once.
populateMetadata_returns(key, keys) == key \notin keys

\* ok of attachAll after the registrations regs, keys being the names
\* registered before them.
RECURSIVE attachAll_ok(_, _)
attachAll_ok(regs, keys) ==
    IF regs = <<>> THEN TRUE
    ELSE /\ addChannel_returns(Head(regs), keys)
         /\ populateMetadata_returns(Head(regs), keys)
         /\ attachAll_ok(Tail(regs), keys \cup {Head(regs)})

InitAcquisition ==
    /\ m_streamJointStates \in BOOLEAN
    /\ m_streamInertials \in BOOLEAN
    /\ gyroscopesList \in SUBSET SensorNames
    /\ IMUsList \in SUBSET IMUNames
    /\ registered = {}
    /\ apc = "constructed"
    /\ tick = 0
    /\ readLog = <<>>
    /\ channelQueue = <<>>
    /\ stray = {}
    /\ dataArrived = {}
    /\ IdleWorker /\ IdleLogs /\ IdleTelemetry /\ IdleRotation /\ IdleClose
    /\ IdleLocks
    /\ IdleSave
    /\ IdleExo
    /\ IdlePublish
    /\ IdleOpen
    /\ IdleSession
    /\ IdleCamera
    /\ IdleStamp
    /\ IdlePeriod
    /\ IdleDrain
    /\ IdleHandler

\* attachAll: the sensor-bridge channels are registered, then one channel
\* per vector signal whose port has a vector to read; start() is called if
\* ok, which the exogenous registrations do not touch.
attachAll ==
    /\ apc = "constructed"
    /\ \E arrived \in SUBSET ExoVectorNames :
         /\ dataArrived' = arrived
         /\ registered' = Range(attachAll_registrations)
                            \cup attachAll_exogenous(arrived)
    /\ channelQueue' = [c \in registered' |-> <<>>]
    /\ apc' = IF attachAll_ok(attachAll_registrations, {}) THEN "running"
                                                          ELSE "failed"
    /\ UNCHANGED <<m_streamJointStates, m_streamInertials, gyroscopesList,
                   IMUsList, tick, readLog, stray>>
    /\ UNCHANGED othersAcquisition

\* run(): one tick. Every source is read; the value of each successful read
\* is appended with the time of the tick.
run ==
    /\ apc = "running"
    /\ tick < MaxTicks
    /\ \E okSet \in SUBSET SourcesRead :
         LET pushes == run_pushes(okSet)
         IN /\ channelQueue' = [c \in DOMAIN channelQueue |->
                           channelQueue[c] \o [i \in 1..Count(pushes, c) |-> tick + 1]]
            /\ stray' = stray \cup (Range(pushes) \ registered)
            /\ readLog' = Append(readLog, okSet)
    /\ tick' = tick + 1
    /\ UNCHANGED <<m_streamJointStates, m_streamInertials, gyroscopesList,
                   IMUsList, registered, apc, dataArrived>>
    /\ UNCHANGED othersAcquisition

NextAcquisition ==
    \/ attachAll
    \/ run

SpecAcquisition == InitAcquisition /\ [][NextAcquisition]_vars

\* The ticks at which a source of channel c was read with success, in tick
\* order.
SuccessfulTicks(c) ==
    SelectSeq([t \in 1..tick |-> t],
              LAMBDA t : ChannelSources(c) \cap readLog[t] # {})

\* C1: after any number of ticks the channelQueue of every sensor-bridge channel
\* holds exactly one sample per tick on which the read of its source
\* succeeded, in tick order and without duplicates; a failed read appends
\* nothing and does not stop the other sources of the tick.
C1_OneSamplePerSuccessfulTick ==
    \A c \in DOMAIN channelQueue : channelQueue[c] = SuccessfulTicks(c)

\* Two ticks: a channel whose source failed once and succeeded once, next to
\* a channel whose source succeeded on both.
C1_Witness ==
    /\ tick = 2
    /\ \E c \in DOMAIN channelQueue, d \in DOMAIN channelQueue :
         /\ Len(channelQueue[c]) = 1 /\ channelQueue[d] = <<1, 2>>
         /\ ChannelSources(c) \cap readLog[1] = {}

\* C17: every append of run() targets a channel that an addChannel call
\* registered, for every combination of the stream flags and of the sensor
\* lists.
C17_AppendsOnlyToRegistered == stray = {}

\* The sensor-bridge channels the configuration enables.
EnabledSensorChannels ==
    (IF m_streamJointStates THEN {JointChannel} ELSE {})
    \cup (IF m_streamInertials
          THEN {<<"gyros", n>> : n \in gyroscopesList}
               \cup {<<k, n>> : k \in Range(IMUChannelKinds), n \in IMUsList}
          ELSE {})

\* Whether a source of channel c produced a value in some tick so far.
ProducedAValue(c) == \E t \in 1..tick : ChannelSources(c) \cap readLog[t] # {}

\* Element counts a channel may be declared with.
Shapes == {1, 3}

\* The element count attachAll declares a channel with: three element names
\* for the gyro, accelerometer and orientation channels, one element for a
\* vector signal, and the joints of the robot (one joint stands for them).
ShapeOf(c) == IF c[1] \in Range(IMUChannelKinds) \cup {"gyros"} THEN 3 ELSE 1

\* The registry of the Buffer Store, channel name to element count.
Registry == [c \in registered |-> ShapeOf(c)]

\* Buffer Store: addChannel(name, shape) on a registry; a new name is added,
\* a name that exists with the same shape changes nothing, a name that exists
\* with another shape is refused (DuplicateChannel).
BufferStore_addChannel(reg, name, shape) ==
    IF name \notin DOMAIN reg
    THEN [ok |-> TRUE, reg |-> [c \in DOMAIN reg \cup {name} |->
                                  IF c = name THEN shape ELSE reg[c]]]
    ELSE [ok |-> reg[name] = shape, reg |-> reg]

\* C22: addChannel called again with the shape of an existing channel changes
\* neither the registry nor the buffered samples, addChannel with another
\* shape fails and leaves the shape as it was, and the double registration
\* attachAll makes for a sensor listed both as a stand-alone inertial sensor
\* and as an IMU does not make attachAll fail.
C22_AddChannelIdempotent ==
    /\ \A c \in registered, shape \in Shapes :
         LET r == BufferStore_addChannel(Registry, c, shape)
         IN /\ r.reg = Registry
            /\ r.ok <=> (shape = ShapeOf(c))
    /\ (/\ apc # "constructed" /\ m_streamInertials
        /\ gyroscopesList \cap IMUsList # {}) => apc = "running"

MaxSaveCalls == 2

\* Streams of m_rgbCamerasList.
MaxSaveStreams == 2

\* The streams attachAll lets through: every stream has its image saver
\* (open() fails otherwise) and a Video stream has its image dimensions
\* (openVideoWriter of attachAll fails otherwise).
AttachedCameraStreams ==
    {cam \in CameraStreams : cam.saver /\ (cam.mode = "video" => cam.dims)}

SaveEvent(what, i) == [ev |-> what, cam |-> i]

\* A callback that finalizes every stream and reopens none.
RECURSIVE Mut_saveCallback_neverReopens(_, _, _, _, _)
Mut_saveCallback_neverReopens(cams, i, method, renameOk, mkdirOk) ==
    IF i > Len(cams)
    THEN [log |-> <<SaveEvent("provenance", 0)>>, result |-> "true"]
    ELSE LET rest == Mut_saveCallback_neverReopens(cams, i + 1, method,
                                                 renameOk, mkdirOk)
         IN [log |-> <<SaveEvent("saveVideo", i)>> \o rest.log,
             result |-> rest.result]

\* saveCallback from stream i on: the loop over m_rgbCamerasList, then the
\* provenance file. renameOk[i] and mkdirOk[i] say whether
\* std::filesystem::rename and std::filesystem::create_directory succeed for
\* stream i; both throw std::filesystem::filesystem_error when they do not.
RECURSIVE saveCallback_steps(_, _, _, _, _)
saveCallback_steps(cams, i, method, renameOk, mkdirOk) ==
    IF i > Len(cams)
    THEN [log |-> <<SaveEvent("provenance", 0)>>, result |-> "true"]
    ELSE LET cam == cams[i]
             rest == saveCallback_steps(cams, i + 1, method, renameOk, mkdirOk)
             saved == <<SaveEvent("saveVideo", i)>>
             opened == <<SaveEvent("saveVideo", i), SaveEvent("open", i)>>
         IN IF ~saveVideo_returns(cam)
            THEN [log |-> <<>>, result |-> "false"]
            ELSE IF ~renameOk[i]
            THEN [log |-> <<>>, result |-> "throws"]
            ELSE IF method # "periodic"
            THEN [log |-> saved \o rest.log, result |-> rest.result]
            ELSE IF cam.mode = "video"
            THEN IF ~openVideoWriter_returns(cam)
                 THEN [log |-> saved, result |-> "false"]
                 ELSE [log |-> opened \o rest.log, result |-> rest.result]
            ELSE IF ~createFramesFolder_returns(cam)
                 THEN [log |-> saved, result |-> "false"]
                 ELSE IF ~mkdirOk[i]
                 THEN [log |-> saved, result |-> "throws"]
                 ELSE [log |-> opened \o rest.log, result |-> rest.result]

InitSave ==
    /\ svCameras \in UNION {[1..n -> AttachedCameraStreams] :
                               n \in 0..MaxSaveStreams}
    /\ svCalls = 0
    /\ svMethod = "none"
    /\ svLog = <<>>
    /\ svResult = "none"
    /\ svRecords = 0
    /\ IdleWorker /\ IdleLogs /\ IdleTelemetry /\ IdleRotation /\ IdleClose
    /\ IdleLocks /\ IdleAcquisition
    /\ IdleExo
    /\ IdlePublish
    /\ IdleOpen
    /\ IdleSession
    /\ IdleCamera
    /\ IdleStamp
    /\ IdlePeriod
    /\ IdleDrain
    /\ IdleHandler

\* One invocation of saveCallback(fileName, method) by the buffer manager.
\* The exit status of the provenance commands decides the content of the
\* file only (codeStatus returns an empty string), so it is not an input.
saveCallback ==
    /\ svCalls < MaxSaveCalls
    /\ \E method \in {"periodic", "final"},
          renameOk \in [DOMAIN svCameras -> BOOLEAN],
          mkdirOk \in [DOMAIN svCameras -> BOOLEAN] :
         LET r == saveCallback_steps(svCameras, 1, method, renameOk, mkdirOk)
         IN /\ svLog' = r.log
            /\ svResult' = r.result
            /\ svMethod' = method
            /\ svRecords' = svRecords
                 + Count(r.log, SaveEvent("provenance", 0))
    /\ svCalls' = svCalls + 1
    /\ UNCHANGED svCameras
    /\ UNCHANGED othersSave

NextSave == saveCallback

SpecSave == InitSave /\ [][NextSave]_vars

\* Position of an event in the log of the last invocation, 0 if absent.
EventAt(what, i) ==
    IF \E k \in DOMAIN svLog : svLog[k] = SaveEvent(what, i)
    THEN CHOOSE k \in DOMAIN svLog : svLog[k] = SaveEvent(what, i)
    ELSE 0

\* C11: every invocation of saveCallback finalizes (saveVideo) every
\* configured camera stream, also when an earlier stream failed.
C11_EveryStreamFinalized ==
    svCalls > 0 => \A i \in DOMAIN svCameras : EventAt("saveVideo", i) > 0

C13_OneProvenancePerRotation ==
    /\ svRecords = svCalls
    /\ svCalls > 0 => Count(svLog, SaveEvent("provenance", 0)) = 1

(***************************************************************************)
(* lookForExogenousSignals: connection and metadata of the bindings        *)
(***************************************************************************)

\* Failed connect calls counted per binding.
MaxFailures == 2

\* The bindings in the order of a cycle: connectToExogeneous over
\* m_vectorsCollectionSignals, then over m_vectorSignals.
ExoBindings ==
    <<[name |-> "c1", kind |-> "collection"],
      [name |-> "c2", kind |-> "collection"],
      [name |-> "v1", kind |-> "vector"]>>

ExoIds == DOMAIN ExoBindings

\* A worker that asks for the metadata whatever connect returned.
Mut_NegotiatesAlways(kind, connected) == kind = "collection"

\* if constexpr (vectors collection signal) { if (!signal.connected) continue;
\* ... getMetadata }.
Negotiates(kind, connected) == kind = "collection" /\ connected

\* A worker that skips every binding.
Mut_NeverAttempts(connected) == FALSE

\* A worker that connects again to a connected binding.
Mut_AlwaysAttempts(connected) == TRUE

\* if (signal.connected) continue;
AttemptsConnect(connected) == ~connected

InitExo ==
    /\ exoConnected = [b \in ExoIds |-> FALSE]
    /\ exoNegotiations = [b \in ExoIds |-> 0]
    /\ exoMetadata = [b \in ExoIds |-> "none"]
    /\ exoIdx = 1
    /\ exoAttempted = {}
    /\ exoFailures = [b \in ExoIds |-> 0]
    /\ IdleWorker /\ IdleLogs /\ IdleTelemetry /\ IdleRotation /\ IdleClose
    /\ IdleLocks /\ IdleAcquisition /\ IdleSave
    /\ IdlePublish
    /\ IdleOpen
    /\ IdleSession
    /\ IdleCamera
    /\ IdleStamp
    /\ IdlePeriod
    /\ IdleDrain
    /\ IdleHandler

\* One iteration of connectToExogeneous on the binding the worker is at,
\* connect returning ok and getMetadata returning metadataOk.
connectToExogeneous(ok, metadataOk) ==
    /\ exoIdx \in ExoIds
    /\ LET b == exoIdx
           kind == ExoBindings[b].kind
       IN IF AttemptsConnect(exoConnected[b])
          THEN /\ exoConnected' = [exoConnected EXCEPT ![b] = ok]
               /\ exoAttempted' = exoAttempted \cup {b}
               /\ exoFailures' =
                    [exoFailures EXCEPT ![b] =
                       IF ~ok /\ @ < MaxFailures THEN @ + 1 ELSE @]
               /\ IF Negotiates(kind, ok)
                  THEN /\ exoNegotiations' =
                            [exoNegotiations EXCEPT ![b] = @ + 1]
                       /\ exoMetadata' =
                            [exoMetadata EXCEPT ![b] =
                               IF metadataOk THEN "known" ELSE "failed"]
                  ELSE UNCHANGED <<exoNegotiations, exoMetadata>>
          ELSE UNCHANGED <<exoConnected, exoAttempted, exoFailures,
                           exoNegotiations, exoMetadata>>
    /\ exoIdx' = exoIdx + 1
    /\ UNCHANGED othersExo

\* The iteration with every outcome of connect and getMetadata.
ExoTryBinding == \E ok \in BOOLEAN, metadataOk \in BOOLEAN :
                    connectToExogeneous(ok, metadataOk)

\* The iteration in which connect succeeds on binding b.
ExoConnectSucceeds(b) ==
    /\ exoIdx = b
    /\ ~exoConnected[b]
    /\ \E metadataOk \in BOOLEAN : connectToExogeneous(TRUE, metadataOk)

\* End of a cycle: yield, sleepUntil(wakeUpTime), next cycle.
ExoCycleEnd ==
    /\ exoIdx = Len(ExoBindings) + 1
    /\ exoIdx' = 1
    /\ exoAttempted' = {}
    /\ UNCHANGED <<exoConnected, exoNegotiations, exoMetadata, exoFailures>>
    /\ UNCHANGED othersExo

NextExo ==
    \/ ExoTryBinding
    \/ ExoCycleEnd

SpecExo == InitExo /\ [][NextExo]_vars

\* The worker keeps cycling, and connect on a binding, attempted again and
\* again, succeeds at some attempt.
SpecExoFair ==
    /\ SpecExo
    /\ WF_vars(NextExo)
    /\ \A b \in ExoIds : SF_vars(ExoConnectSucceeds(b))

\* C14: the metadata of a vectors-collection binding is asked for exactly
\* once, in the iteration in which connect first succeeds and never before;
\* a failed negotiation leaves the binding connected and no later cycle
\* negotiates again. A plain-vector binding never negotiates.
C14_NegotiationExactlyOnce ==
    /\ [](\A b \in ExoIds :
            /\ exoNegotiations[b] =
                 (IF ExoBindings[b].kind = "collection" /\ exoConnected[b]
                  THEN 1 ELSE 0)
            /\ (exoMetadata[b] = "failed" => exoConnected[b]))
    /\ [][\A b \in ExoIds :
            /\ (exoNegotiations'[b] # exoNegotiations[b]
                  => ~exoConnected[b] /\ exoConnected'[b])
            /\ (exoConnected[b] => exoConnected'[b])]_vars

\* A binding whose negotiation failed, skipped by a later cycle.
C14_Witness ==
    /\ exoMetadata[1] = "failed" /\ exoConnected[1]
    /\ exoIdx = 2 /\ 1 \notin exoAttempted
    /\ exoNegotiations[1] = 1

\* C15 as stated: the cycle that follows a failed negotiation negotiates
\* again for that binding.
C15_NegotiationRetried ==
    [][\A b \in ExoIds :
         (exoIdx = b /\ exoIdx' = b + 1 /\ exoMetadata[b] = "failed")
           => exoNegotiations'[b] = exoNegotiations[b] + 1]_vars

\* C15 amended: a failed negotiation is not retried. The iteration of a
\* later cycle on that binding leaves its metadata failed and its count of
\* negotiations at one; only a failed connect is attempted again.
C15_NegotiationNotRetried ==
    /\ [][\A b \in ExoIds :
            (exoIdx = b /\ exoIdx' = b + 1 /\ exoMetadata[b] = "failed")
              => /\ exoNegotiations'[b] = 1
                 /\ exoMetadata'[b] = "failed"
                 /\ b \notin exoAttempted']_vars
    /\ [][\A b \in ExoIds :
            (exoIdx = b /\ exoIdx' = b + 1 /\ ~exoConnected[b])
              => b \in exoAttempted']_vars

\* The second collection binding failed its negotiation and was skipped by
\* a later cycle, while the first one is still pending and attempted.
C15_Witness ==
    /\ exoMetadata[2] = "failed" /\ exoNegotiations[2] = 1
    /\ exoIdx = 3 /\ 2 \notin exoAttempted /\ 1 \in exoAttempted
    /\ ~exoConnected[1]

\* C30: the connection state of an exogenous binding is monotonic. A binding
\* that is connected stays connected in every later step, no step calls
\* connect on it again (it never enters the attempts of a cycle and its
\* failed calls stay as they are), and the binding table keeps its keys.
C30_ConnectionMonotonic ==
    [][/\ DOMAIN exoConnected' = DOMAIN exoConnected
       /\ \A b \in ExoIds :
            exoConnected[b]
              => /\ exoConnected'[b]
                 /\ (b \in exoAttempted' => b \in exoAttempted)
                 /\ exoFailures'[b] = exoFailures[b]]_vars

\* The plain-vector binding failed a connect, connected in a later cycle
\* and was skipped by the cycle after it.
C30_Witness ==
    /\ exoConnected[3] /\ exoFailures[3] = 1
    /\ exoIdx = 4 /\ 3 \notin exoAttempted

\* C16: a binding whose connect failed stays pending and connect is called
\* on it in every later cycle; with a worker that keeps cycling and a
\* connect that succeeds at some attempt, every binding ends up connected
\* for good.
C16_EventuallyConnected ==
    /\ [][\A b \in ExoIds :
            exoFailures'[b] > exoFailures[b]
              => ~exoConnected'[b] /\ exoMetadata'[b] = "none"]_vars
    /\ [](exoIdx = Len(ExoBindings) + 1
            => \A b \in ExoIds : exoConnected[b] \/ b \in exoAttempted)
    /\ <>[](\A b \in ExoIds : exoConnected[b])

\* Every binding connected, the first one after failed attempts.
C16_Witness ==
    /\ \A b \in ExoIds : exoConnected[b]
    /\ exoFailures[1] = MaxFailures

(***************************************************************************)
(* run(): the calls on the sources, the buffer manager and the publisher   *)
(***************************************************************************)

\* Ticks of one session.
MaxPublishTicks == 3

\* The name constants of the device, as distinct strings.
ROBOT_RT_ROOT_NAME == "robot_realtime"

TIMESTAMPS_NAME == "timestamps"

JOINT_STATE_POSITIONS_NAME == "joints_state::positions"

MOTOR_STATE_CURRENTS_NAME == "motors_state::currents"

MOTOR_STATE_PWM_NAME == "motors_state::PWM"

\* Exogenous bindings a configuration may hold.
CollectionNames == {"c1"}

VectorNames == {"v1"}

\* ROBOT_RT_ROOT_NAME + TREE_DELIM + name.
RTName(name) == <<ROBOT_RT_ROOT_NAME, name>>

\* One call of run(): op is "clearData", "read", "push_back", "populateData"
\* or "sendData", name the source, channel or real-time name it is made on,
\* val the value it carries.
Op(op, name, val) == [op |-> op, name |-> name, val |-> val]

\* The value a source returns at tick t.
ValueOf(src, t) == <<src, t>>

\* if (get...(buffer)) { push_back(buffer, time, channel);
\*                       populateData(rtName, buffer); }
ReadAndPublish(src, channel, rtName, okSet, t) ==
    <<Op("read", <<src>>, <<>>)>>
    \o (IF src \in okSet
        THEN <<Op("push_back", <<channel>>, ValueOf(src, t)),
               Op("populateData", rtName, ValueOf(src, t))>>
        ELSE <<>>)

\* The loop of run() over m_vectorsCollectionSignals, from the names left.
RECURSIVE run_collections(_, _, _)
run_collections(names, okSet, t) ==
    IF names = {} THEN <<>>
    ELSE LET n == CHOOSE x \in names : TRUE
         IN ReadAndPublish(n, n, RTName(n), okSet, t)
            \o run_collections(names \ {n}, okSet, t)

\* The calls of one tick of run(), in order. The plain-vector bindings of
\* m_vectorSignals do not appear: run() has no loop over them.
run_ops(okSet, t) ==
    <<Op("clearData", <<>>, <<>>),
      Op("populateData", RTName(TIMESTAMPS_NAME), ValueOf("time", t))>>
    \o (IF pubJointStates
        THEN ReadAndPublish("jointPositions", JOINT_STATE_POSITIONS_NAME,
                            RTName(JOINT_STATE_POSITIONS_NAME), okSet, t)
        ELSE <<>>)
    \o (IF pubMotorStates
        THEN ReadAndPublish("motorCurrents", MOTOR_STATE_CURRENTS_NAME,
                            RTName(MOTOR_STATE_CURRENTS_NAME), okSet, t)
        ELSE <<>>)
    \o (IF pubMotorPWM
        THEN ReadAndPublish("motorPWMs", MOTOR_STATE_PWM_NAME,
                            RTName(MOTOR_STATE_CURRENTS_NAME), okSet, t)
        ELSE <<>>)
    \o run_collections(pubCollections, okSet, t)
    \o <<Op("sendData", <<>>, <<>>)>>

\* The sources the configuration enables.
ConfiguredSources ==
    (IF pubJointStates THEN {"jointPositions"} ELSE {})
    \cup (IF pubMotorStates THEN {"motorCurrents"} ELSE {})
    \cup (IF pubMotorPWM THEN {"motorPWMs"} ELSE {})
    \cup pubCollections \cup pubVectors

\* The channel of a source.
ChannelOf(src) ==
    CASE src = "jointPositions" -> JOINT_STATE_POSITIONS_NAME
      [] src = "motorCurrents" -> MOTOR_STATE_CURRENTS_NAME
      [] src = "motorPWMs" -> MOTOR_STATE_PWM_NAME
      [] OTHER -> src

InitPublish ==
    /\ pubJointStates \in BOOLEAN
    /\ pubMotorStates \in BOOLEAN
    /\ pubMotorPWM \in BOOLEAN
    /\ pubCollections \in SUBSET CollectionNames
    /\ pubVectors \in SUBSET VectorNames
    /\ pubTick = 0
    /\ pubOps = <<>>
    /\ IdleWorker /\ IdleLogs /\ IdleTelemetry /\ IdleRotation /\ IdleClose
    /\ IdleLocks /\ IdleAcquisition /\ IdleSave /\ IdleExo
    /\ IdleOpen
    /\ IdleSession
    /\ IdleCamera
    /\ IdleStamp
    /\ IdlePeriod
    /\ IdleDrain
    /\ IdleHandler

\* One tick of run(), the reads in okSet succeeding.
run_tick ==
    /\ pubTick < MaxPublishTicks
    /\ \E okSet \in SUBSET ConfiguredSources :
         pubOps' = run_ops(okSet, pubTick + 1)
    /\ pubTick' = pubTick + 1
    /\ UNCHANGED <<pubJointStates, pubMotorStates, pubMotorPWM,
                   pubCollections, pubVectors>>
    /\ UNCHANGED othersPublish

NextPublish == run_tick

SpecPublish == InitPublish /\ [][NextPublish]_vars

\* Positions of the calls of a kind in the last tick.
OpsOf(kind) == {k \in DOMAIN pubOps : pubOps[k].op = kind}

\* The value the publisher holds under a real-time name when it is flushed:
\* the last populateData on that name after the clearData of the tick.
Published(rtName) ==
    LET at == {k \in OpsOf("populateData") : pubOps[k].name = rtName}
    IN IF at = {} THEN <<>>
       ELSE pubOps[CHOOSE k \in at : \A j \in at : j <= k].val

\* The real-time names of the tick.
RTNames == {pubOps[k].name : k \in OpsOf("populateData")}

\* C18: every value appended to a channel on a tick is published under the
\* real-time name of that channel, and under no other name.
C18_PublishedUnderOwnName ==
    \A k \in OpsOf("push_back") :
        /\ Published(RTName(pubOps[k].name[1])) = pubOps[k].val
        /\ \A n \in RTNames :
             n # RTName(pubOps[k].name[1]) => Published(n) # pubOps[k].val

\* C19: a tick flushes the publisher exactly once, after its clearData and
\* after every populateData, and publishes no channel whose source gave no
\* value on the tick.
C19_FlushOncePerTick ==
    pubTick > 0 =>
        /\ Cardinality(OpsOf("sendData")) = 1
        /\ Cardinality(OpsOf("clearData")) = 1
        /\ pubOps[1].op = "clearData"
        /\ pubOps[Len(pubOps)].op = "sendData"
        /\ \A src \in ConfiguredSources :
             (\A k \in OpsOf("push_back") : pubOps[k].name[1] # ChannelOf(src))
               => RTName(ChannelOf(src)) \notin RTNames

\* C20: a tick reads every configured source exactly once.
C20_EverySourceRead ==
    pubTick > 0 =>
        \A src \in ConfiguredSources :
            Cardinality({k \in OpsOf("read") : pubOps[k].name = <<src>>}) = 1

(***************************************************************************)
(* open(): the configuration                                               *)
(***************************************************************************)

\* Cameras the camera bridge lists (sensorsList.rgbCamerasList).
MaxOpenCameras == 1

\* Parameters open() reads and does without.
OptionalParams ==
    {"sampling_period_in_s", "text_logging_subnames",
     "code_status_cmd_prefixes"}

\* A parameter that is missing, or present with a value.
Missing == [present |-> FALSE, val |-> <<>>]

Given(v) == [present |-> TRUE, val |-> v]

SeqsUpTo(S, n) == UNION {[1..k -> S] : k \in 0..n}

\* Values of rgb_cameras_fps, of rgb_cameras_rgb_save_mode and of
\* video_codec_code.
FpsLists == SeqsUpTo({-1, 0, 1}, MaxOpenCameras)

SaveModeLists == SeqsUpTo({"frame", "video", "png"}, MaxOpenCameras)

CodecCodes == {<<"m", "p", "4", "v">>, <<"a", "v", "c">>}

\* The RobotCameraBridge part of a configuration: no group, a bridge without
\* rgb cameras, or a bridge with MaxOpenCameras rgb cameras.
CameraConfigs ==
    [group : {FALSE}, initializes : {FALSE}, rgbEnabled : {FALSE},
     fps : {Missing}, saveMode : {Missing}, codec : {Missing}]
    \cup [group : {TRUE}, initializes : BOOLEAN, rgbEnabled : {FALSE},
          fps : {Missing}, saveMode : {Missing}, codec : {Missing}]
    \cup [group : {TRUE}, initializes : {TRUE}, rgbEnabled : {TRUE},
          fps : {Missing} \cup {Given(f) : f \in FpsLists},
          saveMode : {Missing} \cup {Given(m) : m \in SaveModeLists},
          codec : {Missing} \cup {Given(c) : c \in CodecCodes}]

\* The fields of the group of a vectors-collection input and of a vector
\* input ("group" is the group itself).
CollectionFields == {"group", "remote", "signal_name"}

VectorFields == {"group", "local", "remote", "carrier", "signal_name"}

AtMostOne(S) == {{}} \cup {{x} : x \in S}

\* The ExogenousSignals part: no group, or the two lists of inputs (each
\* present or not), one collection input and one vector input, each with the
\* field its group lacks. What open() cannot reach (the inputs of a list that
\* is missing, the vector list after a failed collection list) is left out.
ExogenousConfigs ==
    {[group |-> FALSE, collections |-> FALSE, vectors |-> FALSE,
      collectionLacks |-> {}, vectorLacks |-> {}]}
    \cup {[group |-> TRUE, collections |-> FALSE, vectors |-> FALSE,
           collectionLacks |-> {}, vectorLacks |-> {}]}
    \cup [group : {TRUE}, collections : {TRUE}, vectors : {FALSE},
          collectionLacks : AtMostOne(CollectionFields), vectorLacks : {{}}]
    \cup [group : {TRUE}, collections : {TRUE}, vectors : {TRUE},
          collectionLacks : AtMostOne(CollectionFields),
          vectorLacks : AtMostOne(VectorFields)]

OpenConfigs ==
    [lacks : SUBSET OptionalParams,
     sensorBridge : BOOLEAN,
     camera : CameraConfigs,
     telemetry : {"missing", "no_save_period", "ok"},
     exogenous : ExogenousConfigs]

\* A frame rate open() accepts even though it is zero.
Mut_FpsRejectsNegativeOnly(f) == f < 0

\* if (fps[i] <= 0) return false
FpsRejected(f) == f <= 0

\* createImageSaver: a saver for "frame" and "video", nullptr otherwise.
createImageSaver_returns(saveMode) == saveMode \in {"frame", "video"}

\* The loop of populateCamerasData over the cameras, from camera i on: false
\* at once on a rejected frame rate, otherwise ok is and-ed with the saver
\* of each camera and returned at the end.
RECURSIVE populateCamerasData_loop(_, _, _, _)
populateCamerasData_loop(fps, saveMode, i, ok) ==
    IF i > Len(fps) THEN ok
    ELSE IF FpsRejected(fps[i]) THEN FALSE
    ELSE populateCamerasData_loop(fps, saveMode, i + 1,
                                  ok /\ createImageSaver_returns(saveMode[i]))

\* populateCamerasData for the rgb cameras.
populateCamerasData(cam, nCameras) ==
    /\ cam.fps.present
    /\ cam.saveMode.present
    /\ Len(cam.fps.val) = Len(cam.saveMode.val)
    /\ Len(cam.fps.val) = nCameras
    /\ populateCamerasData_loop(cam.fps.val, cam.saveMode.val, 1, TRUE)

\* setupRobotCameraBridge: false without the group, and false when
\* m_cameraBridge->initialize(ptr) fails.
setupRobotCameraBridge_returns(cam) == cam.group /\ cam.initializes

\* m_cameraBridge after setupRobotCameraBridge: the handle is assigned
\* before initialize is called and is not reset when initialize fails.
setupRobotCameraBridge_handle(cam) ==
    IF ~cam.group THEN "nullptr"
    ELSE IF cam.initializes THEN "initialized"
    ELSE "uninitialized"

\* The camera part of open(): without the bridge, or if the bridge lists no
\* rgb camera, nothing is read.
open_cameras(cam) ==
    setupRobotCameraBridge_returns(cam) /\ cam.rgbEnabled =>
        /\ populateCamerasData(cam, MaxOpenCameras)
        /\ cam.codec.present => Len(cam.codec.val) = 4

setupTelemetry_returns(telemetry) == telemetry = "ok"

setupExogenousInputs_returns(exo) ==
    exo.group =>
        /\ exo.collections
        /\ exo.collectionLacks = {}
        /\ exo.vectors
        /\ exo.vectorLacks = {}

setupRobotSensorBridge_returns(present) == present

\* What open() returns for a configuration.
open_returns(c) ==
    /\ setupRobotSensorBridge_returns(c.sensorBridge)
    /\ open_cameras(c.camera)
    /\ setupTelemetry_returns(c.telemetry)
    /\ setupExogenousInputs_returns(c.exogenous)

InitOpen ==
    /\ openConfig \in OpenConfigs
    /\ openResult = "none"
    /\ m_cameraBridge = "nullptr"
    /\ bridgeUse = "none"
    /\ IdleWorker /\ IdleLogs /\ IdleTelemetry /\ IdleRotation /\ IdleClose
    /\ IdleLocks /\ IdleAcquisition /\ IdleSave /\ IdleExo /\ IdlePublish
    /\ IdleSession
    /\ IdleCamera
    /\ IdleStamp
    /\ IdlePeriod
    /\ IdleDrain
    /\ IdleHandler

open ==
    /\ openResult = "none"
    /\ openResult' = IF open_returns(openConfig) THEN "true" ELSE "false"
    /\ m_cameraBridge' =
         IF setupRobotSensorBridge_returns(openConfig.sensorBridge)
         THEN setupRobotCameraBridge_handle(openConfig.camera)
         ELSE "nullptr"
    /\ UNCHANGED <<openConfig, bridgeUse>>
    /\ UNCHANGED othersOpen

\* attachAll, as far as the camera bridge goes: if (m_cameraBridge !=
\* nullptr) m_cameraBridge->setDriversList(poly), and further down the
\* lists of cameras; otherwise every camera step is skipped.
attachAll_cameraBridge ==
    /\ openResult = "true"
    /\ bridgeUse = "none"
    /\ bridgeUse' = IF m_cameraBridge # "nullptr" THEN "used" ELSE "skipped"
    /\ UNCHANGED <<openConfig, openResult, m_cameraBridge>>
    /\ UNCHANGED othersOpen

NextOpen ==
    \/ open
    \/ attachAll_cameraBridge

SpecOpen == InitOpen /\ [][NextOpen]_vars

\* The required parameters of the claim that a configuration lacks or gives
\* a malformed value for, among those of the parts it enables.
RequiredDefects(c) ==
    LET cam == c.camera
        exo == c.exogenous
        recorded == cam.group /\ cam.initializes /\ cam.rgbEnabled
    IN (IF ~c.sensorBridge THEN {"sensor bridge group"} ELSE {})
       \cup (IF c.telemetry = "missing" THEN {"telemetry group"} ELSE {})
       \cup (IF c.telemetry = "no_save_period" THEN {"save_period"} ELSE {})
       \cup (IF recorded /\ (~cam.fps.present \/ ~cam.saveMode.present)
             THEN {"camera parameter"} ELSE {})
       \cup (IF recorded /\ \E i \in DOMAIN cam.fps.val : cam.fps.val[i] <= 0
             THEN {"fps"} ELSE {})
       \cup (IF recorded /\ (\/ Len(cam.fps.val) # MaxOpenCameras
                             \/ Len(cam.saveMode.val) # MaxOpenCameras)
             THEN {"list length"} ELSE {})
       \cup (IF recorded /\ \E i \in DOMAIN cam.saveMode.val :
                               cam.saveMode.val[i] \notin {"frame", "video"}
             THEN {"save mode"} ELSE {})
       \cup (IF recorded /\ cam.codec.present /\ Len(cam.codec.val) # 4
             THEN {"codec"} ELSE {})
       \cup (IF exo.group /\ (\/ ~exo.collections \/ ~exo.vectors
                              \/ exo.collectionLacks # {}
                              \/ exo.vectorLacks # {})
             THEN {"exogenous field"} ELSE {})

\* C23: open() returns false whenever the configuration lacks a required
\* parameter or gives it a malformed value (sensor-bridge or telemetry
\* group, save_period, a frame rate that is not positive, camera lists of
\* the wrong length, a save mode other than frame and video, a codec code
\* that is not 4 characters, an exogenous group with a missing field), and
\* lacking optional parameters (sampling period, text-logging sub-names,
\* command prefixes, the camera group) never makes it return false.
C23_OpenFailsOnConfigurationError ==
    openResult # "none" =>
        /\ RequiredDefects(openConfig) # {} => openResult = "false"
        /\ RequiredDefects(openConfig) = {} => openResult = "true"

\* open() refused a configuration whose only defect is a frame rate of zero,
\* with every optional parameter missing.
C23_Witness ==
    /\ openResult = "false"
    /\ RequiredDefects(openConfig) = {"fps"}
    /\ openConfig.lacks = OptionalParams
    /\ \E i \in DOMAIN openConfig.camera.fps.val :
         openConfig.camera.fps.val[i] = 0

\* C37: after open() the camera bridge handle is set if and only if the
\* camera bridge was initialized; when the group is missing or the
\* initialization fails open() still succeeds if nothing else is wrong, the
\* handle is unset, and attachAll skips the camera steps.
C37_HandleSetIffInitialized ==
    LET cam == openConfig.camera
        initialized == cam.group /\ cam.initializes
    IN /\ (openResult # "none" /\ openConfig.sensorBridge)
            => ((m_cameraBridge # "nullptr") <=> initialized)
       /\ (openResult # "none" /\ ~initialized
              /\ RequiredDefects(openConfig) = {}) => openResult = "true"
       /\ (bridgeUse # "none" /\ ~initialized) => bridgeUse = "skipped"

(***************************************************************************)
(* attachAll, the metadata of the publisher and the text-log drain         *)
(***************************************************************************)

\* Cameras of m_rgbCamerasList.
MaxSessionCameras == 2

\* Ticks of one session.
MaxSessionTicks == 2

\* Messages pending on m_textLoggingPort at one tick.
MaxPendingReads == 2

SessionCameraNames == <<"cam1", "cam2", "cam3", "cam4">>

\* "camera::" + camera + "::rgb"
CameraChannel(i) == <<"camera", SessionCameraNames[i], "rgb">>

\* A camera of the list: its save mode and whether openVideoWriter
\* (createFramesFolder in frame mode) succeeds for it.
SessionCameras == [mode : {"video", "frame"}, opens : BOOLEAN]

\* The first position at or after from where sub occurs in data, 0 if none
\* (std::string::find).
Find(data, sub, from) ==
    LET hits == {i \in from..(Len(data) - Len(sub) + 1) :
                    SubSeq(data, i, i + Len(sub) - 1) = sub}
    IN IF hits = {} THEN 0
       ELSE CHOOSE i \in hits : \A j \in hits : i <= j

\* The loop of findAndReplaceAll, pos being the occurrence found last.
RECURSIVE findAndReplaceAll_from(_, _, _, _)
findAndReplaceAll_from(data, toSearch, replaceStr, pos) ==
    IF pos = 0 THEN data
    ELSE LET replaced == SubSeq(data, 1, pos - 1) \o replaceStr
                         \o SubSeq(data, pos + Len(toSearch), Len(data))
         IN findAndReplaceAll_from(replaced, toSearch, replaceStr,
                Find(replaced, toSearch, pos + Len(replaceStr)))

findAndReplaceAll(data, toSearch, replaceStr) ==
    findAndReplaceAll_from(data, toSearch, replaceStr, Find(data, toSearch, 1))

\* The text-logging entries the port may deliver, valid or not: two systems
\* whose names differ by '-' and '_' only, and two processes.
TextLoggingEntries ==
    [portSystem : {<<"h", "-", "1">>, <<"h", "_", "1">>},
     portPrefix : {<<"l">>},
     processName : {<<"a", "-", "-", "b">>, <<"a">>},
     processPID : {<<"7">>},
     isValid : BOOLEAN]

\* msg.portSystem + "::" + msg.portPrefix + "::" + msg.processName + "::p"
\* + msg.processPID, with every '-' replaced by '_'.
TextLogChannel(msg) ==
    findAndReplaceAll(msg.portSystem \o <<":", ":">> \o msg.portPrefix
                      \o <<":", ":">> \o msg.processName
                      \o <<":", ":", "p">> \o msg.processPID,
                      <<"-">>, <<"_">>)

TextLogChannels == {TextLogChannel(msg) : msg \in TextLoggingEntries}

\* A drain that adds the channel of every valid message.
Mut_AlwaysNewTextLog(signalName, stored) == TRUE

\* m_textLogsStoredInManager.find(signalName) == end()
IsNewTextLog(signalName, stored) == signalName \notin stored

\* The drain of run() over the pending messages: the names stored and the
\* names addChannel was called with, in order.
RECURSIVE run_drain(_, _, _)
run_drain(msgs, stored, added) ==
    IF msgs = <<>> THEN [stored |-> stored, added |-> added]
    ELSE LET msg == Head(msgs)
             signalName == TextLogChannel(msg)
         IN IF msg.isValid /\ IsNewTextLog(signalName, stored)
            THEN run_drain(Tail(msgs), stored \cup {signalName},
                           Append(added, signalName))
            ELSE run_drain(Tail(msgs), stored, added)

\* The camera part of attachAll from camera i on: false at the first camera
\* whose writer or folder cannot be opened, otherwise the channel of each
\* camera is added.
RECURSIVE attachAll_cameras(_, _, _)
attachAll_cameras(cams, i, channels) ==
    IF i > Len(cams) THEN [ok |-> TRUE, channels |-> channels]
    ELSE IF ~cams[i].opens THEN [ok |-> FALSE, channels |-> channels]
    ELSE attachAll_cameras(cams, i + 1, channels \cup {CameraChannel(i)})

\* The channels attachAll adds before finalizeMetadata: those of the sensor
\* bridge and those of the exogenous signals that had data.
attachAll_channels(joints, arrived) ==
    (IF joints THEN {JointChannel} ELSE {})
    \cup {ExoVectorChannel(n) : n \in arrived}

\* An attachAll that writes no metadata for the exogenous channels.
Mut_attachAll_noExogenousMetadata(joints, arrived) ==
    {RTName(<<TIMESTAMPS_NAME>>)}
    \cup (IF joints THEN {RTName(JointChannel)} ELSE {})

\* The keys attachAll calls populateMetadata with, all of them before
\* finalizeMetadata: the timestamps and one key per channel above.
attachAll_metadata(joints, arrived) ==
    {RTName(<<TIMESTAMPS_NAME>>)}
    \cup (IF joints THEN {RTName(JointChannel)} ELSE {})
    \cup {RTName(ExoVectorChannel(n)) : n \in arrived}

InitSession ==
    /\ ssJointStates \in BOOLEAN
    /\ ssCameras \in SeqsUpTo(SessionCameras, MaxSessionCameras)
    /\ ssArrived = {}
    /\ ssPc = "constructed"
    /\ bmChannels = {}
    /\ rtMetadata = {}
    /\ rtFinalized = FALSE
    /\ m_textLogsStoredInManager = {}
    /\ textAddChannel = [n \in TextLogChannels |-> 0]
    /\ textValidCount = [n \in TextLogChannels |-> 0]
    /\ ssTick = 0
    /\ IdleWorker /\ IdleLogs /\ IdleTelemetry /\ IdleRotation /\ IdleClose
    /\ IdleLocks /\ IdleAcquisition /\ IdleSave /\ IdleExo /\ IdlePublish
    /\ IdleOpen
    /\ IdleCamera
    /\ IdleStamp
    /\ IdlePeriod
    /\ IdleDrain
    /\ IdleHandler

\* attachAll: channels and metadata of the sensors and of the exogenous
\* signals, finalizeMetadata, then the cameras; start() if all went well.
SessionAttachAll ==
    /\ ssPc = "constructed"
    /\ \E arrived \in SUBSET ExoVectorNames :
         LET cams == attachAll_cameras(ssCameras, 1,
                         attachAll_channels(ssJointStates, arrived))
         IN /\ ssArrived' = arrived
            /\ rtMetadata' = attachAll_metadata(ssJointStates, arrived)
            /\ bmChannels' = cams.channels
            /\ ssPc' = IF cams.ok THEN "running" ELSE "failed"
    /\ rtFinalized' = TRUE
    /\ UNCHANGED <<ssJointStates, ssCameras, m_textLogsStoredInManager, textAddChannel, textValidCount,
                   ssTick>>
    /\ UNCHANGED othersSession

\* One tick of run(), as far as the channels go: the text-log drain is the
\* only part that adds a channel, and no part writes metadata.
SessionRun ==
    /\ ssPc = "running"
    /\ ssTick < MaxSessionTicks
    /\ \E msgs \in SeqsUpTo(TextLoggingEntries, MaxPendingReads) :
         LET d == run_drain(msgs, m_textLogsStoredInManager, <<>>)
         IN /\ m_textLogsStoredInManager' = d.stored
            /\ bmChannels' = bmChannels \cup Range(d.added)
            /\ textAddChannel' = [n \in TextLogChannels |->
                                    textAddChannel[n] + Count(d.added, n)]
            /\ textValidCount' = [n \in TextLogChannels |->
                 textValidCount[n]
                 + Cardinality({k \in DOMAIN msgs :
                                  /\ msgs[k].isValid
                                  /\ TextLogChannel(msgs[k]) = n})]
    /\ ssTick' = ssTick + 1
    /\ UNCHANGED <<ssJointStates, ssCameras, ssArrived, ssPc, rtMetadata,
                   rtFinalized>>
    /\ UNCHANGED othersSession

NextSession ==
    \/ SessionAttachAll
    \/ SessionRun

SpecSession == InitSession /\ [][NextSession]_vars

PublishedChannels ==
    {c \in bmChannels : c[1] # "camera" /\ c \notin TextLogChannels}

C25_CameraFailureIsLocal ==
    (ssPc # "constructed" /\ \E i \in DOMAIN ssCameras : ~ssCameras[i].opens)
        => ssPc = "running"

\* C29: across the ticks of a session the drain adds the channel of a
\* text-log name exactly once, at the tick that brings the first valid
\* message with that name; later messages with the name and invalid
\* messages add nothing.
C29_TextLogChannelOnce ==
    /\ [](\A n \in TextLogChannels :
            /\ textAddChannel[n] = IF textValidCount[n] > 0 THEN 1 ELSE 0
            /\ n \in bmChannels <=> textValidCount[n] > 0)
    /\ [][\A n \in TextLogChannels :
            textAddChannel'[n] > textAddChannel[n] => textValidCount[n] = 0]_vars

\* Two ticks that brought three valid messages with one name, and one
\* channel for it.
C29_Witness ==
    /\ ssTick = 2
    /\ \E n \in TextLogChannels :
         /\ textValidCount[n] >= 3
         /\ textAddChannel[n] = 1
         /\ n \in bmChannels

(***************************************************************************)
(* recordVideo: the cycle of a camera worker                               *)
(***************************************************************************)

\* Cycles of the worker in one session.
MaxCameraCycles == 3

\* Time units a cycle may take.
MaxCycleDuration == 2

StreamOrder == <<"rgb", "depth">>

\* A camera of the rgb list has no depth stream, one of the rgbd list has
\* both.
CameraStreamConfigs ==
    [rgb : {"video", "frame"}, depth : {"none", "video", "frame"}]

\* writer.depth->frame * writer.depthScale, applied to a new depth frame.
Scaled(stream, frame) ==
    IF stream = "depth" THEN [frame EXCEPT !.scaled = @ + 1] ELSE frame

\* The frame of a stream after the pull of a cycle: the new one, or the
\* previous one if the pull failed.
FrameAfterPull(stream, previous, pulled, cycle) ==
    IF pulled THEN Scaled(stream, [id |-> cycle, scaled |-> 0]) ELSE previous

CameraEvent(op, stream, frame, lock, t) ==
    [op |-> op, stream |-> stream, frame |-> frame, lock |-> lock, t |-> t]

\* A worker that stamps the sample with the time of the append.
Mut_SampleTimeNow(timeAtTop, now) == now

\* push_back(time, time, channel): the sample carries the local `time`.
SampleTime(timeAtTop, now) == timeAtTop

\* What a cycle does for one stream with the frame it holds: a write to the
\* encoder under the mutex of the stream, or an image file and one sample.
recordVideo_stream(stream, mode, frame, index, timeAtTop, now) ==
    IF mode = "none" THEN <<>>
    ELSE IF mode = "video"
    THEN <<CameraEvent("write", stream, frame, stream, 0)>>
    ELSE <<CameraEvent("imwrite", stream, frame, "none", index),
           CameraEvent("push_back", stream, frame, "m_bufferManagerMutex",
                       SampleTime(timeAtTop, now))>>

InitCamera ==
    /\ cvStreams \in CameraStreamConfigs
    /\ cvClock = 0
    /\ cvTime = 0
    /\ cvFrame = [s \in Range(StreamOrder) |-> [id |-> 0, scaled |-> 0]]
    /\ cvPull = [s \in Range(StreamOrder) |-> FALSE]
    /\ cvLog = <<>>
    /\ cvCycles = 0
    /\ imageIndex = 0
    /\ IdleWorker /\ IdleLogs /\ IdleTelemetry /\ IdleRotation /\ IdleClose
    /\ IdleLocks /\ IdleAcquisition /\ IdleSave /\ IdleExo /\ IdlePublish
    /\ IdleOpen /\ IdleSession
    /\ IdleStamp
    /\ IdlePeriod
    /\ IdleDrain
    /\ IdleHandler

\* One cycle of the loop of recordVideo: the time is read, each stream is
\* pulled and emitted, the index is increased; the clock moves on while the
\* cycle runs and while the worker sleeps.
recordVideo_cycle ==
    /\ cvCycles < MaxCameraCycles
    /\ \E pulled \in [Range(StreamOrder) -> BOOLEAN],
          before \in 0..MaxCycleDuration, after \in 0..MaxCycleDuration :
         LET frames == [s \in Range(StreamOrder) |->
                          IF cvStreams[s] = "none" THEN cvFrame[s]
                          ELSE FrameAfterPull(s, cvFrame[s], pulled[s],
                                              cvCycles + 1)]
         IN /\ cvTime' = cvClock
            /\ cvPull' = pulled
            /\ cvFrame' = frames
            /\ cvLog' = recordVideo_stream("rgb", cvStreams.rgb, frames.rgb,
                                           imageIndex, cvClock, cvClock + before)
                        \o recordVideo_stream("depth", cvStreams.depth,
                                              frames.depth, imageIndex, cvClock,
                                              cvClock + before)
            /\ cvClock' = cvClock + before + after
    /\ imageIndex' = imageIndex + 1
    /\ cvCycles' = cvCycles + 1
    /\ UNCHANGED cvStreams
    /\ UNCHANGED othersCamera

NextCamera == recordVideo_cycle

SpecCamera == InitCamera /\ [][NextCamera]_vars

\* The events of the last cycle for a stream.
StreamEvents(s) == SelectSeq(cvLog, LAMBDA e : e.stream = s)

\* C26: in every cycle and for each stream of the camera one frame is
\* emitted, the previous one if the pull failed: in video mode by a write to
\* the encoder under the lock of the stream, with no append to the Buffer
\* Store; in frame mode by one image file and one sample that carries the
\* time read at the top of the cycle.
C26_OneFramePerCycle ==
    /\ [](cvCycles > 0 =>
            \A s \in Range(StreamOrder) :
                LET ev == StreamEvents(s)
                IN /\ cvStreams[s] = "none" => ev = <<>>
                   /\ cvStreams[s] = "video" =>
                        /\ Len(ev) = 1
                        /\ ev[1].op = "write" /\ ev[1].lock = s
                        /\ ev[1].frame = cvFrame[s]
                   /\ cvStreams[s] = "frame" =>
                        /\ Len(ev) = 2
                        /\ ev[1].op = "imwrite" /\ ev[1].frame = cvFrame[s]
                        /\ ev[2].op = "push_back" /\ ev[2].t = cvTime)
    /\ [][\A s \in Range(StreamOrder) :
            (cvStreams[s] # "none" /\ ~cvPull'[s]) => cvFrame'[s] = cvFrame[s]]_vars

\* A cycle whose depth pull failed after an earlier one succeeded: the
\* earlier frame was written again as an image, and the sample carries a
\* time that the clock has passed since.
C26_Witness ==
    /\ cvCycles = 3
    /\ cvStreams.depth = "frame" /\ cvStreams.rgb = "video"
    /\ ~cvPull.depth /\ cvFrame.depth.id = 2 /\ cvFrame.depth.scaled = 1
    /\ StreamEvents("depth")[2].t = cvTime
    /\ cvClock > cvTime
    /\ Len(StreamEvents("rgb")) = 1

(***************************************************************************)
(* run(): the time of a tick and the stamps of its samples                 *)
(***************************************************************************)

\* Ticks of one session.
MaxStampTicks == 2

\* Longest time a call of the tick takes, in clock units.
MaxCallDuration == 1

\* The sources of a tick in the order run() reads them: the joint positions,
\* a six-axis force-torque sensor, a key of a vectors collection.
StampSources == <<"joints_state::positions", "FTs::ft1", "c1::key">>

\* A loop that stamps each sample with the clock at the time of the append.
Mut_StampOfNow(timeOfTick, now) == now

\* push_back(buffer, time, channel): the stamp is the constant time of the
\* tick, whatever the clock shows when the append is made.
StampOf(timeOfTick, now) == timeOfTick

\* The appends of a tick from source i on, the clock being at now when
\* source i is read, call i taking durations[i].
RECURSIVE run_appends(_, _, _, _, _)
run_appends(i, okSet, durations, timeOfTick, now) ==
    IF i > Len(StampSources) THEN <<>>
    ELSE LET at == now + durations[i]
         IN (IF StampSources[i] \in okSet
             THEN <<[channel |-> StampSources[i],
                     stamp |-> StampOf(timeOfTick, at), at |-> at]>>
             ELSE <<>>)
            \o run_appends(i + 1, okSet, durations, timeOfTick, at)

\* Sum of the first n elements of a sequence of numbers.
RECURSIVE SumTo(_, _)
SumTo(s, n) == IF n = 0 THEN 0 ELSE s[n] + SumTo(s, n - 1)

InitStamp ==
    /\ tsClock = 0 /\ tsTick = 0 /\ tsAdvanced = 0 /\ tsTime = 0
    /\ tsPublished = 0 /\ tsPushes = <<>>
    /\ IdleWorker /\ IdleLogs /\ IdleTelemetry /\ IdleRotation /\ IdleClose
    /\ IdleLocks /\ IdleAcquisition /\ IdleSave /\ IdleExo /\ IdlePublish
    /\ IdleOpen /\ IdleSession /\ IdleCamera
    /\ IdlePeriod
    /\ IdleDrain
    /\ IdleHandler

\* One tick of run(): advance() takes advanceTime, the clock is read once,
\* timeData is given to the publisher, every source is read in turn and the
\* thread sleeps until its next period.
run_stamped ==
    /\ tsTick < MaxStampTicks
    /\ \E advanceTime \in 0..MaxCallDuration,
          okSet \in SUBSET Range(StampSources),
          durations \in [DOMAIN StampSources -> 0..MaxCallDuration] :
         LET reading == tsClock + advanceTime
         IN /\ tsAdvanced' = tsClock + advanceTime
            /\ tsTime' = reading
            /\ tsPublished' = reading
            /\ tsPushes' = run_appends(1, okSet, durations, reading, reading)
            /\ tsClock' = reading + SumTo(durations, Len(StampSources)) + 1
    /\ tsTick' = tsTick + 1
    /\ UNCHANGED othersStamp

NextStamp == run_stamped

SpecStamp == InitStamp /\ [][NextStamp]_vars

\* C31: all the samples appended in one tick, on every channel, carry the
\* one clock reading of the tick, taken when the sensor bridge had advanced,
\* and the timestamp given to the publisher in the tick is that reading.
C31_OneTimestampPerTick ==
    /\ \A i \in DOMAIN tsPushes : tsPushes[i].stamp = tsTime
    /\ tsPublished = tsTime
    /\ tsTime = tsAdvanced

\* A tick in which advance() took time and the clock moved between the
\* appends on two channels.
C31_Witness ==
    /\ tsTick = 2 /\ tsTime > 0
    /\ Len(tsPushes) = 3
    /\ tsPushes[1].at < tsPushes[3].at
    /\ tsPushes[1].at > tsTime

(***************************************************************************)
(* The period of the thread and the period setupTelemetry sizes for        *)
(***************************************************************************)

\* PeriodicThread(0.01, ...) and double devicePeriod{0.01}, in period units
\* of this section: 0.01 s is 2 units, so that a period can be shorter.
DefaultPeriod == 2

\* The two constructors: the period of the thread is the argument of the
\* explicit one and 0.01 s for the default one.
InitPeriod ==
    /\ ctorKind \in {"default", "explicit"}
    /\ threadPeriod \in (IF ctorKind = "default" THEN {DefaultPeriod}
                                                 ELSE 1..MaxDevicePeriod)
    /\ samplingParam = <<>>
    /\ pdDevicePeriod = 0 /\ pdSavePeriod = 0 /\ pdSamples = 0
    /\ pdPc = "constructed"
    /\ IdleWorker /\ IdleLogs /\ IdleTelemetry /\ IdleRotation /\ IdleClose
    /\ IdleLocks /\ IdleAcquisition /\ IdleSave /\ IdleExo /\ IdlePublish
    /\ IdleOpen /\ IdleSession /\ IdleCamera /\ IdleStamp
    /\ IdleDrain
    /\ IdleHandler

\* open(): double devicePeriod{0.01}; if (getParameter("sampling_period_in_s",
\* devicePeriod)) setPeriod(devicePeriod); ... setupTelemetry(group,
\* devicePeriod).
open_sampling_period ==
    /\ pdPc = "constructed"
    /\ \E param \in {<<>>} \cup {<<p>> : p \in 1..MaxDevicePeriod},
          savePeriod \in 1..MaxSavePeriod :
         LET period == IF param # <<>> THEN param[1] ELSE DefaultPeriod
         IN /\ samplingParam' = param
            /\ threadPeriod' = IF param # <<>> THEN param[1] ELSE threadPeriod
            /\ pdDevicePeriod' = period
            /\ pdSavePeriod' = savePeriod
            /\ pdSamples' \in setupTelemetry_n_samples(savePeriod, period)
    /\ pdPc' = "opened"
    /\ UNCHANGED ctorKind
    /\ UNCHANGED othersPeriod

NextPeriod == open_sampling_period

SpecPeriod == InitPeriod /\ [][NextPeriod]_vars

\* C35: the period setupTelemetry sizes the buffer for is the period of the
\* thread, with either constructor and with or without sampling_period_in_s:
\* capacity >= 1.1 * save_period / (period of the thread).
C35_BufferSizedForThreadPeriod ==
    pdPc = "opened"
      => /\ pdDevicePeriod = threadPeriod
         /\ 100 * pdSamples * threadPeriod >= (100 + percentage) * pdSavePeriod

(***************************************************************************)
(* run(): the loop that drains the text-log port                           *)
(***************************************************************************)

\* Ticks of one session.
MaxDrainTicks == 2

\* Messages in the port when a tick starts its drain.
MaxQueued == 2

\* Messages the producers send while one drain runs.
MaxSentInDrain == 2

InitDrain ==
    /\ portQueue \in 0..MaxQueued
    /\ bufferportSize = 0
    /\ pendingAtStart = 0
    /\ drainReads = 0
    /\ drainPc = "idle"
    /\ readNull = FALSE
    /\ sentInDrain = 0
    /\ drainTick = 0
    /\ IdleWorker /\ IdleLogs /\ IdleTelemetry /\ IdleRotation /\ IdleClose
    /\ IdleLocks /\ IdleAcquisition /\ IdleSave /\ IdleExo /\ IdlePublish
    /\ IdleOpen /\ IdleSession /\ IdleCamera /\ IdleStamp /\ IdlePeriod
    /\ IdleHandler

\* int bufferportSize = m_textLoggingPort.getPendingReads();
DrainStart ==
    /\ drainPc = "idle"
    /\ drainTick < MaxDrainTicks
    /\ bufferportSize' = portQueue
    /\ pendingAtStart' = portQueue
    /\ drainReads' = 0
    /\ readNull' = FALSE
    /\ sentInDrain' = 0
    /\ drainPc' = "loop"
    /\ drainTick' = drainTick + 1
    /\ UNCHANGED portQueue
    /\ UNCHANGED othersDrain

\* One iteration of while (bufferportSize > 0): read(false) gives a message
\* and bufferportSize is read again from getPendingReads(), or it gives
\* nullptr and the loop breaks.
DrainRead ==
    /\ drainPc = "loop"
    /\ bufferportSize > 0
    /\ \E got \in {g \in BOOLEAN : g => portQueue > 0} :
         IF got
         THEN /\ portQueue' = portQueue - 1
              /\ drainReads' = drainReads + 1
              /\ bufferportSize' = portQueue - 1
              /\ UNCHANGED <<readNull, drainPc>>
         ELSE /\ readNull' = TRUE
              /\ drainPc' = "done"
              /\ UNCHANGED <<portQueue, drainReads, bufferportSize>>
    /\ UNCHANGED <<pendingAtStart, sentInDrain, drainTick>>
    /\ UNCHANGED othersDrain

\* The test of the while finds bufferportSize at zero.
DrainExit ==
    /\ drainPc = "loop"
    /\ bufferportSize = 0
    /\ drainPc' = "done"
    /\ UNCHANGED <<portQueue, bufferportSize, pendingAtStart, drainReads,
                   readNull, sentInDrain, drainTick>>
    /\ UNCHANGED othersDrain

\* sendData() and the return of run(); messages arrive before the next tick.
DrainNextTick ==
    /\ drainPc = "done"
    /\ drainPc' = "idle"
    /\ \E arrived \in 0..MaxQueued :
         portQueue' = IF arrived > portQueue THEN arrived ELSE portQueue
    /\ UNCHANGED <<bufferportSize, pendingAtStart, drainReads, readNull,
                   sentInDrain, drainTick>>
    /\ UNCHANGED othersDrain

\* A connected producer sends a message while the drain runs.
ProducerSends ==
    /\ drainPc = "loop"
    /\ sentInDrain < MaxSentInDrain
    /\ portQueue' = portQueue + 1
    /\ sentInDrain' = sentInDrain + 1
    /\ UNCHANGED <<bufferportSize, pendingAtStart, drainReads, drainPc,
                   readNull, drainTick>>
    /\ UNCHANGED othersDrain

NextDrain ==
    \/ DrainStart
    \/ DrainRead
    \/ DrainExit
    \/ DrainNextTick
    \/ ProducerSends

SpecDrain == InitDrain /\ [][NextDrain]_vars

\* C36: the drain of a tick reads at most as many messages as were pending
\* when it started, also when producers send while it runs, and it ends as
\* soon as the pending count is zero or a read returns no message.
C36_DrainBoundedByPending ==
    /\ drainReads <= pendingAtStart
    /\ drainPc = "done" => (bufferportSize = 0 \/ readNull)

(***************************************************************************)
(* VariablesHandler: addVariable, getVariable, getNumberOfVariables        *)
(***************************************************************************)

\* Calls made on one handler.
MaxHandlerCalls == 4

\* Largest size of a variable.
MaxVariableSize == 2

VariableNames == {"a", "b", "c"}

\* iDynTree::IndexRange::InvalidRange()
InvalidRange == [offset |-> -1, size |-> -1]

\* A handler that never finds the name among the stored variables.
Mut_NeverStored(name, variables) == FALSE

\* m_variables.find(name) != m_variables.end()
IsStored(name, variables) == name \in DOMAIN variables

\* A handler that puts every variable at offset 0.
Mut_RangeAtZero(size, numberOfVariables) == [offset |-> 0, size |-> size]

\* indexRange.size = size; indexRange.offset = m_numberOfVariables;
NewRange(size, numberOfVariables) ==
    [offset |-> numberOfVariables, size |-> size]

\* m_variables.emplace(name, indexRange): a key that is present keeps its
\* value.
emplace(variables, name, indexRange) ==
    IF name \in DOMAIN variables THEN variables
    ELSE [n \in DOMAIN variables \cup {name} |->
            IF n = name THEN indexRange ELSE variables[n]]

InitHandler ==
    /\ m_variables = <<>>
    /\ m_numberOfVariables = 0
    /\ vhAdded = <<>>
    /\ vhLast = [op |-> "none", name |-> "", size |-> 0, ret |-> TRUE,
                 range |-> InvalidRange]
    /\ vhCalls = 0
    /\ IdleWorker /\ IdleLogs /\ IdleTelemetry /\ IdleRotation /\ IdleClose
    /\ IdleLocks /\ IdleAcquisition /\ IdleSave /\ IdleExo /\ IdlePublish
    /\ IdleOpen /\ IdleSession /\ IdleCamera /\ IdleStamp /\ IdlePeriod
    /\ IdleDrain

\* VariablesHandler::addVariable(name, size)
addVariable ==
    /\ vhCalls < MaxHandlerCalls
    /\ \E name \in VariableNames, size \in 0..MaxVariableSize :
         IF IsStored(name, m_variables)
         THEN /\ vhLast' = [op |-> "addVariable", name |-> name,
                            size |-> size, ret |-> FALSE,
                            range |-> InvalidRange]
              /\ UNCHANGED <<m_variables, m_numberOfVariables, vhAdded>>
         ELSE /\ m_variables' =
                   emplace(m_variables, name,
                           NewRange(size, m_numberOfVariables))
              /\ m_numberOfVariables' = m_numberOfVariables + size
              /\ vhAdded' = Append(vhAdded, [name |-> name, size |-> size])
              /\ vhLast' = [op |-> "addVariable", name |-> name,
                            size |-> size, ret |-> TRUE,
                            range |-> InvalidRange]
    /\ vhCalls' = vhCalls + 1
    /\ UNCHANGED othersHandler

\* VariablesHandler::getVariable(name)
getVariable ==
    /\ vhCalls < MaxHandlerCalls
    /\ \E name \in VariableNames :
         vhLast' = [op |-> "getVariable", name |-> name, size |-> 0,
                    ret |-> TRUE,
                    range |-> IF IsStored(name, m_variables)
                              THEN m_variables[name] ELSE InvalidRange]
    /\ vhCalls' = vhCalls + 1
    /\ UNCHANGED <<m_variables, m_numberOfVariables, vhAdded>>
    /\ UNCHANGED othersHandler

NextHandler ==
    \/ addVariable
    \/ getVariable

SpecHandler == InitHandler /\ [][NextHandler]_vars

\* Sum of the sizes of the first n additions that succeeded.
RECURSIVE AddedSizes(_)
AddedSizes(n) == IF n = 0 THEN 0 ELSE vhAdded[n].size + AddedSizes(n - 1)

\* The indices of a range.
Indices(r) == r.offset..(r.offset + r.size - 1)

\* C38: after any sequence of addVariable calls the stored ranges are
\* pairwise disjoint and contiguous from 0 in the order of insertion (the
\* offset of a variable is the total before its insertion), a stored range
\* never changes, and getNumberOfVariables() is the sum of the sizes of the
\* variables whose addition succeeded.
C38_RangesContiguous ==
    /\ [](/\ DOMAIN m_variables = {vhAdded[i].name : i \in DOMAIN vhAdded}
          /\ \A i \in DOMAIN vhAdded :
               m_variables[vhAdded[i].name] =
                 [offset |-> AddedSizes(i - 1), size |-> vhAdded[i].size]
          /\ \A n1, n2 \in DOMAIN m_variables :
               n1 # n2 => Indices(m_variables[n1])
                            \cap Indices(m_variables[n2]) = {}
          /\ m_numberOfVariables = AddedSizes(Len(vhAdded)))
    /\ [][\A n \in DOMAIN m_variables :
            n \in DOMAIN m_variables' /\ m_variables'[n] = m_variables[n]]_vars

\* Three variables stored, between them a call that was refused.
C38_Witness ==
    /\ Len(vhAdded) = 3 /\ vhCalls = 4
    /\ m_numberOfVariables = 5
    /\ vhAdded[2].size = 2 /\ m_variables[vhAdded[3].name].offset = 4

\* C39: addVariable with a stored name returns false and leaves the ranges
\* and the total as they are; getVariable returns the stored range of a
\* stored name and the invalid range of a name that was never added, and
\* does not modify the handler.
C39_DuplicateRefused ==
    [][vhCalls' # vhCalls =>
         /\ (vhLast'.op = "addVariable" /\ vhLast'.name \in DOMAIN m_variables)
              => /\ vhLast'.ret = FALSE
                 /\ m_variables' = m_variables
                 /\ m_numberOfVariables' = m_numberOfVariables
         /\ vhLast'.op = "getVariable"
              => /\ m_variables' = m_variables
                 /\ m_numberOfVariables' = m_numberOfVariables
                 /\ vhLast'.range =
                      (IF \E i \in DOMAIN vhAdded : vhAdded[i].name = vhLast'.name
                       THEN m_variables[vhLast'.name]
                       ELSE [offset |-> -1, size |-> -1])]_vars

\* A second addition under a stored name, with another size, was refused
\* while two variables are stored.
C39_Witness ==
    /\ vhLast.op = "addVariable" /\ ~vhLast.ret
    /\ vhLast.name \in DOMAIN m_variables
    /\ vhLast.size # m_variables[vhLast.name].size
    /\ Len(vhAdded) = 2

====
